---- MODULE Spec2Model ----
(***************************************************************************)
(* A model of xplane: the git hosting providers (branch comparison and     *)
(* remote URL parsing) and the context compare loop with its snapshot      *)
(* store and knowledge ledger.                                             *)
(*                                                                         *)
(* The specifications share the variables:                                 *)
(*   SpecCompare  GithubProvider / GitlabProvider CompareBranchWithDefault *)
(*   SpecParse    parseGitURL over remote URLs built from their parts      *)
(*   SpecRun      contextCompare, run after run, over one project          *)
(*   SpecLedger   writeKnowledgeFile and readKnowledgeFile, call by call   *)
(*   SpecExtract  extractKnowledgeUpdate over a response, line by line     *)
(*   SpecPrompt   the prompt of a Changed run, over texts with placeholders *)
(*   SpecPages    GitlabProvider.getAllCommits, request by request          *)
(*   SpecPass     one gathering pass: initProvider and the provider calls   *)
(* A specification leaves the variables of the others at their idle        *)
(* values.                                                                 *)
(***************************************************************************)
EXTENDS Integers, Sequences, FiniteSets, TLC

VARIABLES
    \* ---- CompareBranchWithDefault (part_005) ----
    variant,              \* "github" | "gitlab": which GitProvider is bound
    cmpArgs,              \* [owner, forkOwner, localBranch]: the call's arguments
    remoteDefaultBranch,  \* the default branch the upstream project has on the host
    cmpPc,                \* position inside CompareBranchWithDefault
    defaultBranch,        \* local: the resolved default branch
    upstreamCommits,      \* local: getAllCommits(upstreamProjectID, defaultBranch)
    forkCommits,          \* local: getAllCommits(forkProjectID, localBranch)
    mergeBaseSHA,         \* local: the merge base found by the fork scan
    calls,                \* the network calls made so far, in order, each with its outcome
    cmpOut,               \* the returned BranchComparison
    cmpErr,               \* the returned error (nil when none)
    \* ---- parseGitURL (part_005) ----
    urlParts,             \* the parts the remote URL was written from
    url,                  \* the URL handed to parseGitURL, a sequence of characters
    parsePc,              \* "parse" before the call, "done" after it
    parseOut,             \* the returned (host, owner, repoName, err)
    \* ---- contextCompare (context.go) ----
    cfg,                  \* [Commands, UseProjectKnowledge]: the loaded Config
    provider,             \* "github" | "gitlab" | "unavailable": what initProvider yields
    tree,                 \* the state of the working tree
    remote,               \* the state of the remote host
    now,                  \* the wall clock, in seconds
    staticFile,           \* .xplane/static_context.txt
    dynFile,              \* .xplane/dynamic_context.txt, the stored snapshot
    knowledgeFile,        \* .xplane/KNOWLEDGE.md, the knowledge ledger
    runPc,                \* position inside contextCompare, "idle" between runs
    runs,                 \* the runs started so far
    run,                  \* the record of the run in progress or last ended
    prevRun,              \* the record of the run before it
    \* ---- the knowledge ledger called directly (context.go) ----
    bodies,               \* the bodies handed to writeKnowledgeFile so far, oldest first
    writeTimes,           \* the second at which each of those calls was made
    lastRead,             \* the last readKnowledgeFile call: the file before and after, the return
    \* ---- extractKnowledgeUpdate (context.go) ----
    responseText,         \* the summarizer's response, the argument
    extractLoop,          \* the loop's locals and what its last pass did with its line
    extractPc,            \* "scan" in the loop, "finish" after it, "done" on return
    extractOut,           \* the returned string
    \* ---- a gathering pass and its provider (context.go, part_007, part_005) ----
    primaryRemote,        \* what findPrimaryRemoteRepoURL returns, a URL in pieces
    tokens,               \* [GithubToken, GitlabToken] of the Config
    gitProvider,          \* gatherer.gitProvider: "nil" | "github" | "gitlab"
    initErr,              \* gatherContext's initErr, "unset" before initProvider
    passCommands,         \* cfg.Commands of the pass
    pending,              \* the commands of cfg.Commands the loop has not reached
    sections,             \* the sections written to the context builder, in order
    initCalls,            \* how often getGitProvider was called in the pass
    apiCalls,             \* the network calls to the hosting API, in order
    lastCall,             \* the last provider method called and what it returned
    passPc,               \* "start" | "loop" | "compare" | "done" | "failed"
    \* ---- GitlabProvider.getAllCommits (part_005) ----
    pageChain,            \* the host's pages of the branch, in the order nextPage links them
    optsPage,             \* opts.Page, the page asked for next
    allCommits,           \* local: the commits appended so far
    pageRequests,         \* the ListCommits requests made, in order
    pagesPc,              \* "list" in the loop, "return" after it, "done" on return
    pagesOut              \* the returned (commits, err)

cmpVars == <<variant, cmpArgs, remoteDefaultBranch, cmpPc, defaultBranch,
             upstreamCommits, forkCommits, mergeBaseSHA, calls, cmpOut, cmpErr>>

parseVars == <<urlParts, url, parsePc, parseOut>>

runVars == <<cfg, provider, tree, remote, now, staticFile, dynFile,
             knowledgeFile, runPc, runs, run, prevRun>>

ledgerVars == <<bodies, writeTimes, lastRead>>

extractVars == <<responseText, extractLoop, extractPc, extractOut>>

passVars == <<primaryRemote, tokens, gitProvider, initErr, passCommands, pending,
              sections, initCalls, apiCalls, lastCall, passPc>>

pagesVars == <<pageChain, optsPage, allCommits, pageRequests, pagesPc, pagesOut>>

vars == <<cmpVars, parseVars, runVars, ledgerVars, extractVars, passVars, pagesVars>>

(* What an action of one part leaves alone of the other parts.             *)
besideCompare == <<parseVars, runVars, ledgerVars, extractVars, passVars, pagesVars>>
besideParse   == <<cmpVars, runVars, ledgerVars, extractVars, passVars, pagesVars>>
besideRun     == <<cmpVars, parseVars, ledgerVars, extractVars, passVars, pagesVars>>
besideExtract == <<cmpVars, parseVars, runVars, ledgerVars, passVars, pagesVars>>
besidePass    == <<cmpVars, parseVars, runVars, ledgerVars, extractVars, pagesVars>>
besidePages   == <<cmpVars, parseVars, runVars, ledgerVars, extractVars, passVars>>

-----------------------------------------------------------------------------
(* Go's nil error, and the zero value of a string.                         *)
nil == "nil"
EmptyString == ""

(* Bounds of the model.                                                    *)
MaxCommits == 4   \* longest commit list a host returns
MaxCount   == 2   \* largest ahead_by / behind_by the native compare returns

CommitIds == {"A", "B", "C", "D", "E"}
Owners    == {"upstream-org", "me"}
Branches  == {"main", "dev"}

Min(S) == CHOOSE x \in S : \A y \in S : x <= y
Range(s) == {s[i] : i \in 1..Len(s)}

(* A host lists every commit of a branch once, newest first.               *)
CommitLists ==
    {s \in UNION {[1..n -> CommitIds] : n \in 0..MaxCommits} :
        \A i, j \in 1..Len(s) : i # j => s[i] # s[j]}

-----------------------------------------------------------------------------
(* BranchComparison and its zero value BranchComparison{}.                 *)
BranchComparison(a, b, s) == [AheadBy |-> a, BehindBy |-> b, Status |-> s]
ZeroComparison == BranchComparison(0, 0, EmptyString)

(* part_005:116 and :260  BranchComparison{Status: "identical"}.            *)
IdenticalComparison == BranchComparison(0, 0, "identical")

(* One network call of the provider's client and whether it succeeded.     *)
Call(api, ok) == [api |-> api, ok |-> ok]

(* A slip in the short cut's test: the branch compared with the wrong name. *)
IsSameBranchWrongName(args, resolved) ==
    args.localBranch = args.forkOwner /\ args.owner = args.forkOwner

(* part_005:115 and :259  localBranch == defaultBranch && owner == forkOwner *)
IsSameBranch(args, resolved) ==
    args.localBranch = resolved /\ args.owner = args.forkOwner

(* part_005:268-271  upstreamCommitMap: the ids of the upstream commits.   *)
UpstreamCommitMap(U) == Range(U)

(* part_005:279-287  the fork scan from index i with n commits counted:    *)
(* stops at the first commit whose id is in the map, which becomes the     *)
(* merge base; every commit before it counts as ahead.                     *)
RECURSIVE ForkScan(_, _, _, _)
ForkScan(F, inUpstream, i, n) ==
    IF i > Len(F) THEN [mergeBaseSHA |-> EmptyString, aheadBy |-> n]
    ELSE IF F[i] \in inUpstream THEN [mergeBaseSHA |-> F[i], aheadBy |-> n]
    ELSE ForkScan(F, inUpstream, i + 1, n + 1)

(* A slip in the upstream scan: the merge base itself counted as behind.   *)
RECURSIVE UpstreamScanInclusive(_, _, _, _)
UpstreamScanInclusive(U, sha, i, n) ==
    IF i > Len(U) THEN n
    ELSE IF U[i] = sha THEN n + 1
    ELSE UpstreamScanInclusive(U, sha, i + 1, n + 1)

(* part_005:293-299  the upstream scan: counts until the merge base.       *)
RECURSIVE UpstreamScan(_, _, _, _)
UpstreamScan(U, sha, i, n) ==
    IF i > Len(U) THEN n
    ELSE IF U[i] = sha THEN n
    ELSE UpstreamScan(U, sha, i + 1, n + 1)

(* A slip in the status chain: the labels of the one-sided cases swapped.  *)
DeriveStatusSwapped(aheadBy, behindBy) ==
    IF aheadBy > 0 /\ behindBy = 0 THEN "behind"
    ELSE IF aheadBy = 0 /\ behindBy > 0 THEN "ahead"
    ELSE IF aheadBy = 0 /\ behindBy = 0 THEN "identical"
    ELSE "diverged"

(* part_005:301-308  status from the two counters.                         *)
DeriveStatus(aheadBy, behindBy) ==
    IF aheadBy > 0 /\ behindBy = 0 THEN "ahead"
    ELSE IF aheadBy = 0 /\ behindBy > 0 THEN "behind"
    ELSE IF aheadBy = 0 /\ behindBy = 0 THEN "identical"
    ELSE "diverged"

(* A slip: the missing merge base never noticed.                           *)
NoCommonAncestorUnchecked(sha) == FALSE

(* part_005:289-291  no merge base: the comparison is refused.             *)
NoCommonAncestor(sha) == sha = EmptyString

(* part_005:278-314  the manual divergence computation on the two lists.   *)
ManualCompare(U, F) ==
    LET scan == ForkScan(F, UpstreamCommitMap(U), 1, 0) IN
    IF NoCommonAncestor(scan.mergeBaseSHA)
    THEN [out |-> ZeroComparison,
          err |-> "could not find a common ancestor for the compared branches",
          mergeBaseSHA |-> scan.mergeBaseSHA]
    ELSE LET behindBy == UpstreamScan(U, scan.mergeBaseSHA, 1, 0) IN
         [out |-> BranchComparison(scan.aheadBy, behindBy,
                                   DeriveStatus(scan.aheadBy, behindBy)),
          err |-> nil,
          mergeBaseSHA |-> scan.mergeBaseSHA]

(* What GitHub's compare endpoint answers: ahead_by, behind_by and the     *)
(* status GitHub derives from them.                                        *)
HostStatus(a, b) ==
    IF a = 0 /\ b = 0 THEN "identical"
    ELSE IF b = 0 THEN "ahead"
    ELSE IF a = 0 THEN "behind"
    ELSE "diverged"

CompareCommitsResponses ==
    {[ahead_by |-> a, behind_by |-> b, status |-> HostStatus(a, b)] :
        a \in 0..MaxCount, b \in 0..MaxCount}

(* part_005:129-133  the native comparison is handed through.              *)
FromCommitsComparison(c) == BranchComparison(c.ahead_by, c.behind_by, c.status)

-----------------------------------------------------------------------------
(* parseGitURL.  A string is the sequence of its characters.               *)

Https    == <<"h", "t", "t", "p", "s", ":", "/", "/">>
GitAt    == <<"g", "i", "t", "@">>
SshGitAt == <<"s", "s", "h", ":", "/", "/", "g", "i", "t", "@">>
DotGit   == <<".", "g", "i", "t">>

(* [\w.-] of the pattern, over the lower-case alphabet the URLs here use.  *)
NameChars ==
    {"a", "b", "c", "d", "e", "f", "g", "h", "i", "j", "k", "l", "m",
     "n", "o", "p", "q", "r", "s", "t", "u", "v", "w", "x", "y", "z",
     "0", "1", "2", "3", "4", "5", "6", "7", "8", "9", "_", ".", "-"}

HasPrefixAt(s, i, p) ==
    i + Len(p) - 1 <= Len(s) /\ SubSeq(s, i, i + Len(p) - 1) = p

(* The last index of the longest run of [\w.-] that starts at i (i - 1     *)
(* when s[i] is no such character).                                        *)
RECURSIVE RunEnd(_, _)
RunEnd(s, i) ==
    IF i <= Len(s) /\ s[i] \in NameChars THEN RunEnd(s, i + 1) ELSE i - 1

(* part_005:14  ([\w.-]+?)(\.git)?$ on the last path segment: the lazy     *)
(* name gives up a final ".git" to the optional group when a name remains. *)
StripDotGit(rest) ==
    IF Len(rest) > Len(DotGit)
       /\ SubSeq(rest, Len(rest) - Len(DotGit) + 1, Len(rest)) = DotGit
    THEN [repo |-> SubSeq(rest, 1, Len(rest) - Len(DotGit)), suffix |-> DotGit]
    ELSE [repo |-> rest, suffix |-> <<>>]

(* part_005:14  gitURLRegex tried at position i:                           *)
(*   (?:git@|https://)([\w.-]+)(?::|/)([\w.-]+)/([\w.-]+?)(\.git)?$        *)
(* A group of [\w.-]+ must be followed by a character outside the class,   *)
(* so it can only be the longest run; the match at i is unique or absent.  *)
(* The result is <<whole match, host, owner, repo, suffix>> or <<>>.       *)
MatchAt(s, i) ==
    LET plen == IF HasPrefixAt(s, i, GitAt) THEN Len(GitAt)
                ELSE IF HasPrefixAt(s, i, Https) THEN Len(Https)
                ELSE 0
        h0 == i + plen
        h1 == RunEnd(s, h0)
        o0 == h1 + 2
        o1 == RunEnd(s, o0)
        r0 == o1 + 2
        r1 == RunEnd(s, r0)
    IN  IF plen = 0 \/ h1 < h0 \/ h1 + 1 > Len(s) THEN <<>>
        ELSE IF s[h1 + 1] \notin {":", "/"} THEN <<>>
        ELSE IF o1 < o0 \/ o1 + 1 > Len(s) THEN <<>>
        ELSE IF s[o1 + 1] # "/" THEN <<>>
        ELSE IF r1 < r0 \/ r1 # Len(s) THEN <<>>
        ELSE LET last == StripDotGit(SubSeq(s, r0, r1)) IN
             <<SubSeq(s, i, r1), SubSeq(s, h0, h1), SubSeq(s, o0, o1),
               last.repo, last.suffix>>

(* regexp.FindStringSubmatch: the leftmost match, nil when there is none.  *)
FindStringSubmatch(s) ==
    LET starts == {i \in 1..Len(s) : MatchAt(s, i) # <<>>} IN
    IF starts = {} THEN <<>> ELSE MatchAt(s, Min(starts))

ParseResult(host, owner, repoName, err) ==
    [host |-> host, owner |-> owner, repoName |-> repoName, err |-> err]

(* part_005:16-28                                                          *)
parseGitURL(u) ==
    LET matches == FindStringSubmatch(u) IN
    IF Len(matches) < 4
    THEN ParseResult(<<>>, <<>>, <<>>, "could not parse owner and repo from url")
    ELSE ParseResult(matches[2], matches[3], matches[4], nil)

(* The remote URLs: a scheme or user prefix, a host, a port, up to two     *)
(* path segments and the .git suffix, each present or not.                 *)
Schemes   == {"https", "scp", "ssh", "none"}
NotAURL   == <<"n", "o", "t", "-", "a", "-", "u", "r", "l">>
HostNames == {<<"g", "i", "t", "h", "u", "b", ".", "c", "o", "m">>,
              <<"g", "i", "t", "l", "a", "b", ".", "e", "x", "a", "m", "p", "l", "e", ".", "c", "o", "m">>,
              NotAURL, <<>>}
Ports     == {<<>>, <<"2", "2", "2", "2">>}
PathNames == {<<"u", "s", "e", "r">>, <<"m", "y", "-", "t", "e", "a", "m">>, <<"r", "e", "p", "o">>}
Paths     == UNION {[1..n -> PathNames] : n \in 0..2}

(* Without a host the URL is the empty string, and not-a-url stands alone; *)
(* git@host:path has no port; the suffix follows a path.                   *)
URLParts ==
    {p \in [scheme : Schemes, host : HostNames, port : Ports, path : Paths,
            dotGit : BOOLEAN] :
        /\ p.host \in {<<>>, NotAURL} =>
              (p.scheme = "none" /\ p.port = <<>> /\ p.path = <<>>)
        /\ p.scheme = "scp" => p.port = <<>>
        /\ p.path = <<>> => ~p.dotGit}

SchemePrefix(scheme) ==
    CASE scheme = "https" -> Https
      [] scheme = "scp"   -> GitAt
      [] scheme = "ssh"   -> SshGitAt
      [] OTHER            -> <<>>

(* The URL as written: prefix, host, :port, the path and the suffix.       *)
BuildURL(p) ==
    SchemePrefix(p.scheme) \o p.host
    \o (IF p.port = <<>> THEN <<>> ELSE <<":">> \o p.port)
    \o (IF Len(p.path) = 0 THEN <<>>
        ELSE (IF p.scheme = "scp" THEN <<":">> ELSE <<"/">>) \o p.path[1])
    \o (IF Len(p.path) < 2 THEN <<>> ELSE <<"/">> \o p.path[2])
    \o (IF p.dotGit THEN DotGit ELSE <<>>)

-----------------------------------------------------------------------------
(* Text.  A text is the sequence of its atoms: an atom is a run of         *)
(* characters that the code below never looks inside (a word, a phrase, a  *)
(* placeholder, a timestamp) or a single white-space character.  Two texts *)
(* are byte-identical exactly when they are the same sequence.             *)

IsSpace(a) == a \in {" ", "\n", "\t", "\r"}

(* strings.TrimSpace                                                       *)
RECURSIVE TrimLeft(_)
TrimLeft(t) == IF t # <<>> /\ IsSpace(Head(t)) THEN TrimLeft(Tail(t)) ELSE t

RECURSIVE TrimRight(_)
TrimRight(t) ==
    IF t # <<>> /\ IsSpace(t[Len(t)]) THEN TrimRight(SubSeq(t, 1, Len(t) - 1)) ELSE t

TrimSpace(t) == TrimRight(TrimLeft(t))

(* strings.Split(t, sep) for a one-atom separator: Split("", sep) is [""]. *)
RECURSIVE Split(_, _)
Split(t, sep) ==
    LET at == {i \in 1..Len(t) : t[i] = sep} IN
    IF at = {} THEN <<t>>
    ELSE <<SubSeq(t, 1, Min(at) - 1)>> \o Split(SubSeq(t, Min(at) + 1, Len(t)), sep)

(* strings.Join(parts, sep)                                                *)
RECURSIVE Join(_, _)
Join(parts, sep) ==
    IF parts = <<>> THEN <<>>
    ELSE IF Len(parts) = 1 THEN parts[1]
    ELSE parts[1] \o <<sep>> \o Join(Tail(parts), sep)

(* strings.HasPrefix                                                       *)
HasPrefix(t, p) == Len(t) >= Len(p) /\ SubSeq(t, 1, Len(p)) = p

(* strings.ReplaceAll(t, old, new) for a one-atom old.                     *)
RECURSIVE ReplaceAll(_, _, _)
ReplaceAll(t, old, new) ==
    LET at == {i \in 1..Len(t) : t[i] = old} IN
    IF at = {} THEN t
    ELSE SubSeq(t, 1, Min(at) - 1) \o new
         \o ReplaceAll(SubSeq(t, Min(at) + 1, Len(t)), old, new)

(* An atom is written in ASCII, a byte a character, but for the atom that  *)
(* stands for a run of twenty check marks (U+2705, three bytes each in     *)
(* UTF-8).                                                                 *)
CheckMarks == "<20 x U+2705>"
ByteCount(a) == IF a = CheckMarks THEN 60 ELSE Len(a)
RuneCount(a) == IF a = CheckMarks THEN 20 ELSE Len(a)

(* len(t): the number of bytes.                                            *)
RECURSIVE ByteLen(_)
ByteLen(t) == IF t = <<>> THEN 0 ELSE ByteCount(Head(t)) + ByteLen(Tail(t))

(* The number of characters of t.                                          *)
RECURSIVE CharLen(_)
CharLen(t) == IF t = <<>> THEN 0 ELSE RuneCount(Head(t)) + CharLen(Tail(t))

(* time.Now().Format("2006-01-02 15:04:05") at second t of the clock.      *)
FormatTime(t) == "2006-01-02 15:04:0" \o ToString(t)

-----------------------------------------------------------------------------
(* The knowledge ledger, context.go:201-322.                               *)

KnowledgeHeader == <<"#", " ", "Project Knowledge">>

(* context.go:211 and :250                                                 *)
InitialContent ==
    <<"*This file will be automatically updated with project insights and important context.*">>

(* A file: absent, or present with its content.                            *)
NoFile == [exists |-> FALSE, content |-> <<>>]
File(content) == [exists |-> TRUE, content |-> content]

(* context.go:252  "# Project Knowledge\n\n*Last updated: %s*\n\n%s"       *)
FirstEntry(timestamp, newContent) ==
    KnowledgeHeader \o <<"\n", "\n", "*Last updated: ", timestamp, "*", "\n", "\n">>
    \o newContent

(* A slip in the layout: the kept body put under the latest heading and   *)
(* the new entry under the previous one.                                   *)
PrependedEntrySwapped(timestamp, newContent, existingContent) ==
    KnowledgeHeader \o <<"\n", "\n", "*Last updated: ", timestamp, "*", "\n", "\n">>
    \o <<"##", " ", "Latest Update (", timestamp, ")", "\n", "\n">>
    \o existingContent
    \o <<"\n", "\n", "---", "\n", "\n", "##", " ", "Previous Knowledge", "\n", "\n">>
    \o newContent

(* context.go:255-256  the new entry above the kept body.                  *)
PrependedEntry(timestamp, newContent, existingContent) ==
    KnowledgeHeader \o <<"\n", "\n", "*Last updated: ", timestamp, "*", "\n", "\n">>
    \o <<"##", " ", "Latest Update (", timestamp, ")", "\n", "\n">>
    \o newContent
    \o <<"\n", "\n", "---", "\n", "\n", "##", " ", "Previous Knowledge", "\n", "\n">>
    \o existingContent

(* context.go:234-244  the body kept from the existing file: without the   *)
(* header, the empty line and the last-updated line when it has them.      *)
ExistingContent(file) ==
    IF ~file.exists THEN <<>>
    ELSE LET lines == Split(file.content, "\n") IN
         IF Len(lines) >= 3 /\ HasPrefix(lines[1], KnowledgeHeader)
         THEN TrimSpace(Join(SubSeq(lines, 4, Len(lines)), "\n"))
         ELSE file.content

(* A slip in the write: the file replaced by the new entry alone.          *)
writeKnowledgeFileOverwriting(file, newContent, t) ==
    File(FirstEntry(FormatTime(t), newContent))

(* context.go:227-260  writeKnowledgeFile at second t: the file it leaves. *)
writeKnowledgeFile(file, newContent, t) ==
    LET existingContent == ExistingContent(file)
        timestamp == FormatTime(t)
    IN  IF existingContent = <<>> \/ existingContent = InitialContent
        THEN File(FirstEntry(timestamp, newContent))
        ELSE File(PrependedEntry(timestamp, newContent, existingContent))

(* context.go:202-224  readKnowledgeFile: the content returned and the     *)
(* file left; the write happens at second t, the returned text is          *)
(* formatted at second u >= t.                                             *)
readKnowledgeFile(file, t, u) ==
    IF ~file.exists
    THEN [content |-> FirstEntry(FormatTime(u), InitialContent),
          file |-> writeKnowledgeFile(file, InitialContent, t),
          wrote |-> TRUE]
    ELSE [content |-> file.content, file |-> file, wrote |-> FALSE]

(* strings.Contains(strings.ToUpper(line), phrase): the phrases, of those  *)
(* the extraction looks for, that the upper-cased atom contains.           *)
UpperPhrases(a) ==
    CASE a \in {"KNOWLEDGE UPDATE", "Knowledge Update", "knowledge update"}
            -> {"KNOWLEDGE UPDATE", "KNOWLEDGE"}
      [] a \in {"Knowledge Notes", "knowledge"} -> {"KNOWLEDGE"}
      [] a \in {"UNCERTAINTY MAP", "Uncertainty Map"} -> {"UNCERTAINTY MAP"}
      [] OTHER -> {}

ContainsUpper(line, phrase) ==
    \E i \in 1..Len(line) : phrase \in UpperPhrases(line[i])

(* context.go:271-273  the header test; the "## " and "### " forms of it   *)
(* contain the plain phrase.                                               *)
IsKnowledgeHeader(line) == ContainsUpper(line, "KNOWLEDGE UPDATE")

(* Slips in the stopping conditions: a heading that ends the section       *)
(* whatever was captured before it, and a heading that never ends it.      *)
IsSectionBoundaryEager(line, knowledgeLines) ==
    LET trimmedLine == TrimSpace(line) IN
    \/ ContainsUpper(line, "UNCERTAINTY MAP") /\ Len(knowledgeLines) > 0
    \/ /\ HasPrefix(trimmedLine, <<"##", " ">>) \/ HasPrefix(trimmedLine, <<"#", " ">>)
       /\ ~ContainsUpper(trimmedLine, "KNOWLEDGE")

IsSectionBoundaryNoHeading(line, knowledgeLines) ==
    ContainsUpper(line, "UNCERTAINTY MAP") /\ Len(knowledgeLines) > 0

(* context.go:286-291  the stopping conditions.                            *)
IsSectionBoundary(line, knowledgeLines) ==
    LET trimmedLine == TrimSpace(line) IN
    \/ ContainsUpper(line, "UNCERTAINTY MAP") /\ Len(knowledgeLines) > 0
    \/ /\ HasPrefix(trimmedLine, <<"##", " ">>)
       /\ ~ContainsUpper(trimmedLine, "KNOWLEDGE")
       /\ Len(knowledgeLines) > 3
    \/ /\ HasPrefix(trimmedLine, <<"#", " ">>)
       /\ ~ContainsUpper(trimmedLine, "KNOWLEDGE")
       /\ Len(knowledgeLines) > 3

(* context.go:269-301  the loop's body on line i: the flags and lines it   *)
(* leaves, what it did with the line, and whether it left the loop.        *)
ScanLine(lines, i, inKnowledgeSection, foundHeader, knowledgeLines) ==
    LET line == lines[i]
        same == [inKnowledgeSection |-> inKnowledgeSection,
                 foundHeader |-> foundHeader,
                 knowledgeLines |-> knowledgeLines,
                 did |-> "passed", break |-> FALSE]
    IN  IF ~foundHeader /\ IsKnowledgeHeader(line)
        THEN [same EXCEPT !.inKnowledgeSection = TRUE, !.foundHeader = TRUE,
                          !.did = "header"]
        ELSE IF ~inKnowledgeSection THEN same
        ELSE IF Len(knowledgeLines) = 0 /\ TrimSpace(line) = <<>>
        THEN [same EXCEPT !.did = "skipped"]
        ELSE IF IsSectionBoundary(line, knowledgeLines)
        THEN [same EXCEPT !.did = "ended", !.break = TRUE]
        ELSE [same EXCEPT !.knowledgeLines = Append(knowledgeLines, line),
                          !.did = "appended", !.break = (i = Len(lines))]

(* context.go:269-301  the scan over the lines from line i.                *)
RECURSIVE ExtractScan(_, _, _, _, _)
ExtractScan(lines, i, inKnowledgeSection, foundHeader, knowledgeLines) ==
    IF i > Len(lines) THEN knowledgeLines
    ELSE LET s == ScanLine(lines, i, inKnowledgeSection, foundHeader, knowledgeLines)
         IN  IF s.break THEN s.knowledgeLines
             ELSE ExtractScan(lines, i + 1, s.inKnowledgeSection, s.foundHeader,
                              s.knowledgeLines)

(* context.go:307-310  trailing empty lines dropped.                       *)
RECURSIVE DropTrailingEmpty(_)
DropTrailingEmpty(ls) ==
    IF ls # <<>> /\ TrimSpace(ls[Len(ls)]) = <<>>
    THEN DropTrailingEmpty(SubSeq(ls, 1, Len(ls) - 1))
    ELSE ls

(* context.go:316  the shortest update that is kept.                       *)
MinKnowledgeLen == 50

(* A slip at the end: the length safeguard left out.                       *)
FinishExtractUnguarded(knowledgeLines) ==
    IF Len(knowledgeLines) = 0 THEN <<>>
    ELSE TrimSpace(Join(DropTrailingEmpty(knowledgeLines), "\n"))

(* context.go:303-321  what is returned for the lines captured.            *)
FinishExtract(knowledgeLines) ==
    LET result == TrimSpace(Join(DropTrailingEmpty(knowledgeLines), "\n"))
    IN  IF Len(knowledgeLines) = 0 THEN <<>>
        ELSE IF ByteLen(result) < MinKnowledgeLen THEN <<>>
        ELSE result

(* context.go:263-322                                                      *)
extractKnowledgeUpdate(response) ==
    FinishExtract(ExtractScan(Split(response, "\n"), 1, FALSE, FALSE, <<>>))

-----------------------------------------------------------------------------
(* The context gatherer, context.go:14-83, and the producers it runs.      *)

(* The states of the project and the bounds of its history.                *)
TreeStates   == {"clean", "edited"}     \* the working tree: nothing uncommitted, or an edit
RemoteStates == {"as cloned", "moved"}   \* the remote host's pull requests, releases, branches
MaxClock  == 1   \* seconds 0..MaxClock of the wall clock
MaxRuns   == 2   \* runs of the tool in one history

(* context.go:18-19 and :79  "---CONTEXT FROM: %s ---\n%s\n\n"             *)
Section(name, body) ==
    <<"---CONTEXT FROM: ">> \o name \o <<" ---", "\n">> \o body \o <<"\n", "\n">>

FirstRunMarker == <<"First run, no context available yet.">>

(* A slip in the placeholder: the configured text used untrimmed.          *)
RECURSIVE createPlaceHolderContextUntrimmed(_)
createPlaceHolderContextUntrimmed(commands) ==
    IF commands = <<>> THEN <<>>
    ELSE Section(Head(commands), FirstRunMarker)
         \o createPlaceHolderContextUntrimmed(Tail(commands))

(* context.go:14-22                                                        *)
RECURSIVE createPlaceHolderContext(_)
createPlaceHolderContext(commands) ==
    IF commands = <<>> THEN <<>>
    ELSE Section(TrimSpace(Head(commands)), FirstRunMarker)
         \o createPlaceHolderContext(Tail(commands))

(* context.go:52                                                           *)
IsGitProviderBasedCommand(trimmedCmd) ==
    trimmedCmd \in {<<"github_prs">>, <<"gitlab_mrs">>, <<"release">>,
                    <<"git_branch_status">>}

(* What a command prints is a function of the command and the working      *)
(* tree; what a host answers is a function of the request and the remote   *)
(* state.                                                                  *)
StdOut(name, t) == <<"stdout of ">> \o name \o <<" in the ", t, " tree">>
RemoteAnswer(name, r) ==
    <<"answer to ">> \o name \o <<" of the remote ", r>>

(* commands.go:284-301  getGitDiff: the diff under a header that carries   *)
(* the time of the capture.                                                *)
getGitDiff(w) ==
    LET diff == IF w.tree = "clean" THEN <<>> ELSE StdOut(<<"git diff">>, w.tree)
        timestamp == FormatTime(w.now)
        header == <<"Git diff captured at ", timestamp,
                    " - Shows uncommitted changes (remains static until committed):",
                    "\n", "\n">>
    IN  IF diff = <<>> THEN header \o <<"No uncommitted changes found.">>
        ELSE header \o diff

(* commands.go:223-245  getRipSecrets: exit code 1 hands the findings on.  *)
getRipSecrets(w) ==
    IF w.tree = "clean" THEN <<"No secrets leaked.">> ELSE StdOut(<<"ripsecrets">>, w.tree)

(* context.go:32-45 and :69-74  the handler of a command, or the command   *)
(* itself run in the working directory; fails says the producer errs.      *)
RunHandler(trimmedCmd, w, fails) ==
    IF fails THEN [output |-> <<>>, err |-> "producer failed"]
    ELSE IF trimmedCmd = <<"git_diff">> THEN [output |-> getGitDiff(w), err |-> nil]
    ELSE IF trimmedCmd = <<"ripsecrets">> THEN [output |-> getRipSecrets(w), err |-> nil]
    ELSE IF IsGitProviderBasedCommand(trimmedCmd)
    THEN [output |-> RemoteAnswer(trimmedCmd, w.remote), err |-> nil]
    ELSE [output |-> StdOut(trimmedCmd, w.tree), err |-> nil]

(* A slip in the skip test: the failed initialisation not looked at.       *)
IsSkippedOtherHostOnly(trimmedCmd, w) ==
    /\ IsGitProviderBasedCommand(trimmedCmd)
    /\ \/ w.provider = "github" /\ trimmedCmd = <<"gitlab_mrs">>
       \/ w.provider = "gitlab" /\ trimmedCmd = <<"github_prs">>

(* context.go:54-67  a provider-backed command is passed over when the     *)
(* provider could not be initialised or belongs to the other host.         *)
IsSkipped(trimmedCmd, w) ==
    /\ IsGitProviderBasedCommand(trimmedCmd)
    /\ \/ w.provider = "unavailable"
       \/ w.provider = "github" /\ trimmedCmd = <<"gitlab_mrs">>
       \/ w.provider = "gitlab" /\ trimmedCmd = <<"github_prs">>

(* A slip in the loop: a producer's error reported and passed over, the    *)
(* way an uninitialised provider is.                                       *)
RECURSIVE GatherFromLenient(_, _, _, _, _)
GatherFromLenient(commands, i, w, failAt, contextBuilder) ==
    IF i > Len(commands) THEN [text |-> contextBuilder, err |-> nil]
    ELSE LET trimmedCmd == TrimSpace(commands[i]) IN
         IF IsSkipped(trimmedCmd, w)
         THEN GatherFromLenient(commands, i + 1, w, failAt, contextBuilder)
         ELSE LET r == RunHandler(trimmedCmd, w, failAt = i) IN
              IF r.err # nil
              THEN GatherFromLenient(commands, i + 1, w, failAt, contextBuilder)
              ELSE GatherFromLenient(commands, i + 1, w, failAt,
                                     contextBuilder \o Section(trimmedCmd, r.output))

(* context.go:47-82  the loop over cfg.Commands from command i on; failAt  *)
(* is the position of the producer that fails in this pass, 0 for none.    *)
RECURSIVE GatherFrom(_, _, _, _, _)
GatherFrom(commands, i, w, failAt, contextBuilder) ==
    IF i > Len(commands) THEN [text |-> contextBuilder, err |-> nil]
    ELSE LET trimmedCmd == TrimSpace(commands[i]) IN
         IF IsSkipped(trimmedCmd, w)
         THEN GatherFrom(commands, i + 1, w, failAt, contextBuilder)
         ELSE LET r == RunHandler(trimmedCmd, w, failAt = i) IN
              IF r.err # nil
              THEN [text |-> <<>>, err |-> "error running command"]
              ELSE GatherFrom(commands, i + 1, w, failAt,
                              contextBuilder \o Section(trimmedCmd, r.output))

(* context.go:70-76  whether the pass runs a producer that returns an      *)
(* error: the failing one is reached and not passed over.                  *)
ProducerFails(commands, w, failAt) ==
    /\ failAt \in 1..Len(commands)
    /\ ~IsSkipped(TrimSpace(commands[failAt]), w)

(* context.go:25-83                                                        *)
gatherContext(commands, w, failAt) == GatherFrom(commands, 1, w, failAt, <<>>)

(* part_001:102  defaultCommands                                           *)
DefaultCommands ==
    <<<<"git_status">>, <<"git_log">>, <<"readme">>, <<"git_exclude">>,
      <<"gitignore">>, <<"git_diff">>, <<"github_prs">>, <<"gitlab_mrs">>,
      <<"release">>, <<"git_branch_status">>, <<"tokei">>, <<"ripsecrets">>>>

(* XPLANE_COMMANDS split at the commas: the default list and lists of the  *)
(* user's, with a blank after a comma and a command of the user's own.     *)
CommandLists ==
    {DefaultCommands,
     <<<<"git_diff">>>>,
     <<<<"git_status">>, <<" ", "tokei">>>>,
     <<<<"release">>, <<" ", "make", " ", "-n">>, <<"git_status">>>>}

(* main.go:11-24  defaultStaticContext                                     *)
defaultStaticContext ==
    <<"\n", "You are a helpful project assistant.", "\n", "\n",
      "--- PREVIOUS STATE ---", "\n", "{{PREVIOUS_CONTEXT}}", "\n", "\n",
      "--- CURRENT STATE ---", "\n", "{{CURRENT_CONTEXT}}", "\n", "\n",
      "---", "\n", "Add a section labeled 'UNCERTAINTY MAP'.", "\n">>

(* A template of the user's in .xplane/static_context.txt.                 *)
CustomStaticContext ==
    <<"What changed between", "\n", "{{PREVIOUS_CONTEXT}}", "\n", "and", "\n",
      "{{CURRENT_CONTEXT}}", "\n">>

(* context.go:139-166  the knowledge section appended to the template.     *)
KnowledgeSection(knowledgeContent) ==
    <<"\n", "\n", "--- PROJECT KNOWLEDGE ---", "\n">> \o knowledgeContent
    \o <<"\n", "\n", "CRITICAL KNOWLEDGE MANAGEMENT INSTRUCTIONS:", "\n">>

(* context.go:171-172  the two substitutions, in the code's order.         *)
FinalPrompt(staticPrompt, fetchedDynamicContext, previousDynamicContext) ==
    ReplaceAll(ReplaceAll(staticPrompt, "{{CURRENT_CONTEXT}}", fetchedDynamicContext),
               "{{PREVIOUS_CONTEXT}}", previousDynamicContext)

(* A slip in the comparison: the snapshots taken to differ always.         *)
SnapshotsEqualNever(fetchedDynamicContext, previousDynamicContext) == FALSE

(* context.go:115  fetchedDynamicContext == string(previousDynamicContext) *)
SnapshotsEqual(fetchedDynamicContext, previousDynamicContext) ==
    fetchedDynamicContext = previousDynamicContext

(* A slip: the deferred write leaving the stored snapshot as it was.       *)
DeferredSnapshotKept(file, fetchedDynamicContext, summarized) == file

(* A slip: the snapshot persisted only after a summary was produced.       *)
DeferredSnapshotOnSuccess(file, fetchedDynamicContext, summarized) ==
    IF summarized THEN File(fetchedDynamicContext) ELSE file

(* context.go:122-126  the deferred write of the gathered snapshot.        *)
DeferredSnapshot(file, fetchedDynamicContext, summarized) ==
    File(fetchedDynamicContext)

(* A slip: the response searched for an update whatever the summarizer's   *)
(* outcome.                                                                *)
KnowledgeUpdateOfAnyOutcome(ok, useProjectKnowledge, summary) ==
    IF useProjectKnowledge THEN extractKnowledgeUpdate(summary) ELSE <<>>

(* context.go:175-181  the update handed to writeKnowledgeFile: the one    *)
(* extracted from a summary the summarizer returned, with knowledge        *)
(* enabled; empty for none.                                                *)
KnowledgeUpdateOf(ok, useProjectKnowledge, summary) ==
    IF ok /\ useProjectKnowledge THEN extractKnowledgeUpdate(summary) ELSE <<>>

(* What the summarizer may answer: a summary with a knowledge update and   *)
(* one without.                                                            *)
Summaries ==
    {<<"The branch moved ahead of main.", "\n", "\n",
       "##", " ", "KNOWLEDGE UPDATE", "\n", "\n",
       "The project gained a provider abstraction over GitHub and GitLab remotes.",
       "\n", "\n", "##", " ", "UNCERTAINTY MAP", "\n",
       "Unsure whether the release cadence changed.">>,
     <<"Nothing notable changed.">>}

(* The record kept of one run of contextCompare: where it started, what it  *)
(* gathered and what it did.                                               *)
NewRun(t, r, static, dyn, knowledge) ==
    [outcome |-> "none",            \* GatherFailed | FirstRun | Unchanged | Changed
     startTree |-> t, startRemote |-> r,
     startStatic |-> static, startDyn |-> dyn, startKnowledge |-> knowledge,
     producerFailed |-> FALSE,      \* a producer that was run returned an error
     gathered |-> FALSE, fetched |-> <<>>,
     prompt |-> <<>>,
     summarized |-> "none",         \* ok | failed
     summarizerCalls |-> 0, snapshotWrites |-> 0,
     ledgerReads |-> 0, ledgerWrites |-> 0,
     updatedKnowledge |-> <<>>,     \* what extractKnowledgeUpdate gave the run
     knowledgeUpdates |-> 0]        \* writeKnowledgeFile calls with an update

NoRun == NewRun("clean", "as cloned", NoFile, NoFile, NoFile)

(* What is kept of a run once the next one starts.                         *)
Past(r) == [outcome |-> r.outcome, startTree |-> r.startTree,
            startRemote |-> r.startRemote, fetched |-> r.fetched,
            summarized |-> r.summarized]

-----------------------------------------------------------------------------
(* The values a part of the model keeps while another part runs.            *)
ParseIdle ==
    /\ urlParts = [scheme |-> "none", host |-> <<>>, port |-> <<>>,
                   path |-> <<>>, dotGit |-> FALSE]
    /\ url = <<>>
    /\ parsePc = "idle"
    /\ parseOut = ParseResult(<<>>, <<>>, <<>>, nil)

CompareIdle ==
    /\ variant = "github"
    /\ cmpArgs = [owner |-> "upstream-org", forkOwner |-> "me", localBranch |-> "main"]
    /\ remoteDefaultBranch = "main"
    /\ cmpPc = "idle"
    /\ defaultBranch = EmptyString
    /\ upstreamCommits = <<>>
    /\ forkCommits = <<>>
    /\ mergeBaseSHA = EmptyString
    /\ calls = <<>>
    /\ cmpOut = ZeroComparison
    /\ cmpErr = nil

RunIdle ==
    /\ cfg = [Commands |-> <<>>, UseProjectKnowledge |-> FALSE]
    /\ provider = "unavailable"
    /\ tree = "clean"
    /\ remote = "as cloned"
    /\ now = 0
    /\ staticFile = NoFile
    /\ dynFile = NoFile
    /\ knowledgeFile = NoFile
    /\ runPc = "off"
    /\ runs = 0
    /\ run = NoRun
    /\ prevRun = Past(NoRun)

(* No readKnowledgeFile call yet.                                          *)
NoRead == [called |-> FALSE, before |-> NoFile, after |-> NoFile, content |-> <<>>]

LedgerIdle == bodies = <<>> /\ writeTimes = <<>> /\ lastRead = NoRead

(* The loop's locals before the first line, context.go:265-267.            *)
ScanStart ==
    [i |-> 1, inKnowledgeSection |-> FALSE, foundHeader |-> FALSE,
     knowledgeLines |-> <<>>, did |-> "none", line |-> <<>>, captured |-> 0]

ExtractIdle ==
    /\ responseText = <<>>
    /\ extractLoop = ScanStart
    /\ extractPc = "idle"
    /\ extractOut = <<>>

(* No provider method called yet.                                          *)
NoCall == [method |-> "none", variant |-> "nil", situation |-> "none",
           resp |-> [hasResp |-> FALSE, StatusCode |-> 0, err |-> nil,
                     releases |-> <<>>],
           out |-> [value |-> "none", err |-> nil]]

PassIdle ==
    /\ primaryRemote = <<>>
    /\ tokens = [GithubToken |-> EmptyString, GitlabToken |-> EmptyString]
    /\ gitProvider = "nil"
    /\ initErr = "unset"
    /\ passCommands = <<>>
    /\ pending = <<>>
    /\ sections = <<>>
    /\ initCalls = 0
    /\ apiCalls = <<>>
    /\ lastCall = NoCall
    /\ passPc = "idle"

(* getAllCommits not called.                                               *)
PagesIdle ==
    /\ pageChain = <<>>
    /\ optsPage = 0
    /\ allCommits = <<>>
    /\ pageRequests = <<>>
    /\ pagesPc = "idle"
    /\ pagesOut = [commits |-> <<>>, err |-> nil]

-----------------------------------------------------------------------------
(* CompareBranchWithDefault, one action per network call and the code that *)
(* follows it up to the next call or the return.                           *)

InitCompare ==
    /\ variant \in {"github", "gitlab"}
    /\ cmpArgs \in [owner : {"upstream-org"}, forkOwner : Owners, localBranch : Branches]
    /\ remoteDefaultBranch \in Branches
    /\ cmpPc = "resolve"
    /\ defaultBranch = EmptyString
    /\ upstreamCommits = <<>>
    /\ forkCommits = <<>>
    /\ mergeBaseSHA = EmptyString
    /\ calls = <<>>
    /\ cmpOut = ZeroComparison
    /\ cmpErr = nil
    /\ ParseIdle
    /\ RunIdle
    /\ LedgerIdle
    /\ ExtractIdle
    /\ PassIdle
    /\ PagesIdle

Return(out, err) ==
    /\ cmpOut' = out
    /\ cmpErr' = err
    /\ cmpPc' = "done"

(* part_005:108-117  GithubProvider: Repositories.Get, then the short cut. *)
GithubGetRepo ==
    /\ cmpPc = "resolve" /\ variant = "github"
    /\ \E ok \in BOOLEAN :
        /\ calls' = Append(calls, Call("Repositories.Get", ok))
        /\ IF ~ok
           THEN /\ Return(ZeroComparison, "xplane: could not get repo info for default branch")
                /\ UNCHANGED defaultBranch
           ELSE /\ defaultBranch' = remoteDefaultBranch
                /\ IF IsSameBranch(cmpArgs, remoteDefaultBranch)
                   THEN Return(IdenticalComparison, nil)
                   ELSE /\ cmpPc' = "compare"
                        /\ UNCHANGED <<cmpOut, cmpErr>>
    /\ UNCHANGED <<variant, cmpArgs, remoteDefaultBranch, upstreamCommits,
                   forkCommits, mergeBaseSHA>>
    /\ UNCHANGED besideCompare

(* part_005:119-133  GithubProvider: Repositories.CompareCommits.          *)
GithubCompareCommits ==
    /\ cmpPc = "compare" /\ variant = "github"
    /\ \/ /\ calls' = Append(calls, Call("Repositories.CompareCommits", FALSE))
          /\ Return(ZeroComparison, "xplane: could not compare branches")
       \/ /\ calls' = Append(calls, Call("Repositories.CompareCommits", TRUE))
          /\ \E c \in CompareCommitsResponses : Return(FromCommitsComparison(c), nil)
    /\ UNCHANGED <<variant, cmpArgs, remoteDefaultBranch, defaultBranch,
                   upstreamCommits, forkCommits, mergeBaseSHA>>
    /\ UNCHANGED besideCompare

(* part_005:250-261  GitlabProvider: Projects.GetProject, then the short cut. *)
GitlabGetProject ==
    /\ cmpPc = "resolve" /\ variant = "gitlab"
    /\ \E ok \in BOOLEAN :
        /\ calls' = Append(calls, Call("Projects.GetProject", ok))
        /\ IF ~ok
           THEN /\ Return(ZeroComparison, "xplane: could not get Gitlab repo info")
                /\ UNCHANGED defaultBranch
           ELSE /\ defaultBranch' = remoteDefaultBranch
                /\ IF IsSameBranch(cmpArgs, remoteDefaultBranch)
                   THEN Return(IdenticalComparison, nil)
                   ELSE /\ cmpPc' = "listUpstream"
                        /\ UNCHANGED <<cmpOut, cmpErr>>
    /\ UNCHANGED <<variant, cmpArgs, remoteDefaultBranch, upstreamCommits,
                   forkCommits, mergeBaseSHA>>
    /\ UNCHANGED besideCompare

(* part_005:264-271  GitlabProvider: the upstream default branch's commits. *)
GitlabListUpstream ==
    /\ cmpPc = "listUpstream" /\ variant = "gitlab"
    /\ \/ /\ calls' = Append(calls, Call("Commits.ListCommits", FALSE))
          /\ Return(ZeroComparison, "xplane: could not list commits for upstream default branch")
          /\ UNCHANGED upstreamCommits
       \/ /\ calls' = Append(calls, Call("Commits.ListCommits", TRUE))
          /\ \E U \in CommitLists : upstreamCommits' = U
          /\ cmpPc' = "listFork"
          /\ UNCHANGED <<cmpOut, cmpErr>>
    /\ UNCHANGED <<variant, cmpArgs, remoteDefaultBranch, defaultBranch,
                   forkCommits, mergeBaseSHA>>
    /\ UNCHANGED besideCompare

(* part_005:273-314  GitlabProvider: the fork branch's commits, then the   *)
(* manual computation.                                                     *)
GitlabListFork ==
    /\ cmpPc = "listFork" /\ variant = "gitlab"
    /\ \/ /\ calls' = Append(calls, Call("Commits.ListCommits", FALSE))
          /\ Return(ZeroComparison, "xplane: could not list commits for remote origin branch")
          /\ UNCHANGED <<forkCommits, mergeBaseSHA>>
       \/ /\ calls' = Append(calls, Call("Commits.ListCommits", TRUE))
          /\ \E F \in CommitLists :
                LET r == ManualCompare(upstreamCommits, F) IN
                /\ forkCommits' = F
                /\ mergeBaseSHA' = r.mergeBaseSHA
                /\ Return(r.out, r.err)
    /\ UNCHANGED <<variant, cmpArgs, remoteDefaultBranch, defaultBranch,
                   upstreamCommits>>
    /\ UNCHANGED besideCompare

NextCompare ==
    \/ GithubGetRepo
    \/ GithubCompareCommits
    \/ GitlabGetProject
    \/ GitlabListUpstream
    \/ GitlabListFork

SpecCompare == InitCompare /\ [][NextCompare]_vars

(* The call has returned; it returned from the manual computation when   *)
(* both commit lists were fetched.                                         *)
Returned == cmpPc = "done"
ResolvedDefaultBranch == Len(calls) >= 1 /\ calls[1].ok
ReturnedManual ==
    /\ Returned /\ variant = "gitlab"
    /\ Len(calls) = 3 /\ calls[2].ok /\ calls[3].ok

-----------------------------------------------------------------------------
(* Properties of CompareBranchWithDefault.                                 *)

SharedIndexes(U, F) == {i \in 1..Len(F) : F[i] \in Range(U)}
ExampleUpstream == <<"C", "B", "A">>
ExampleFork     == <<"E", "D", "B", "A">>

(* C1: in the manual computation, for upstream and fork lists that share a *)
(* commit id, the merge base is the first fork commit whose id is in the   *)
(* upstream list, aheadBy is the number of fork commits before it and      *)
(* behindBy the number of upstream commits before the merge base; upstream *)
(* [C,B,A] and fork [E,D,B,A] give merge base B, 2 ahead, 1 behind,        *)
(* diverged.                                                               *)
C1_ManualMergeBaseAndCounters ==
    /\ (ReturnedManual /\ SharedIndexes(upstreamCommits, forkCommits) # {}) =>
          LET k == Min(SharedIndexes(upstreamCommits, forkCommits)) IN
          /\ cmpErr = nil
          /\ mergeBaseSHA = forkCommits[k]
          /\ cmpOut.AheadBy = Cardinality({i \in 1..Len(forkCommits) : i < k})
          /\ cmpOut.BehindBy =
                Cardinality({j \in 1..Len(upstreamCommits) :
                    \A h \in 1..j : upstreamCommits[h] # forkCommits[k]})
    /\ (ReturnedManual /\ upstreamCommits = ExampleUpstream /\ forkCommits = ExampleFork) =>
          /\ mergeBaseSHA = "B"
          /\ cmpErr = nil
          /\ cmpOut = [AheadBy |-> 2, BehindBy |-> 1, Status |-> "diverged"]

C1_Witness ==
    /\ ReturnedManual
    /\ upstreamCommits = ExampleUpstream /\ forkCommits = ExampleFork
    /\ cmpOut.Status = "diverged"

(* C2: in the manual computation, when no fork commit (the fork list may   *)
(* be empty) has an id in the upstream list, the call returns an error and *)
(* no comparison: the zero BranchComparison, never an identical one.       *)
C2_UnrelatedHistoriesFail ==
    (ReturnedManual /\ SharedIndexes(upstreamCommits, forkCommits) = {}) =>
        /\ cmpErr # nil
        /\ cmpOut = ZeroComparison
        /\ cmpOut.Status # "identical"

C2_Witness ==
    /\ ReturnedManual
    /\ forkCommits # <<>> /\ upstreamCommits # <<>>
    /\ SharedIndexes(upstreamCommits, forkCommits) = {}
    /\ cmpErr # nil

(* C3: in both variants, when the default branch was resolved and the      *)
(* local branch is the upstream default branch and the fork owner is the   *)
(* upstream owner, the call returns identical with both counters 0 and the *)
(* resolving call is the only network call made.                           *)
C3_SameBranchShortCut ==
    (/\ Returned /\ ResolvedDefaultBranch
     /\ cmpArgs.localBranch = remoteDefaultBranch
     /\ cmpArgs.forkOwner = cmpArgs.owner) =>
        /\ cmpErr = nil
        /\ cmpOut = [AheadBy |-> 0, BehindBy |-> 0, Status |-> "identical"]
        /\ Len(calls) = 1
        /\ calls[1].api = (IF variant = "github" THEN "Repositories.Get"
                           ELSE "Projects.GetProject")

C3_Witness ==
    /\ Returned /\ ResolvedDefaultBranch /\ variant = "gitlab"
    /\ cmpArgs.localBranch = remoteDefaultBranch
    /\ cmpArgs.forkOwner = cmpArgs.owner
    /\ cmpOut.Status = "identical"

-----------------------------------------------------------------------------
(* GitlabProvider.getAllCommits, part_005:222-247, one action per request. *)

MaxPages   == 3   \* page numbers 1..MaxPages, the longest chain of pages
MaxPerPage == 2   \* most commits the host puts on one page

(* part_005:227  PerPage: 100                                              *)
PerPage == 100

(* The commits of page p when it holds m of them.                          *)
CommitsOfPage(p, m) == [k \in 1..m |-> 10 * p + k]

(* The orders in which nextPage can link pages: page 1 first, then pages   *)
(* the host numbers as it likes, none twice.                               *)
PageOrders ==
    {s \in UNION {[1..n -> 1..MaxPages] : n \in 1..MaxPages} :
        /\ s[1] = 1
        /\ \A i, j \in 1..Len(s) : i # j => s[i] # s[j]}

(* The finite chains of pages: each page with its number and its commits.  *)
PageChains ==
    UNION {{[i \in 1..Len(s) |->
                [page |-> s[i], commits |-> CommitsOfPage(s[i], sizes[i])]] :
            sizes \in [1..Len(s) -> 0..MaxPerPage]} : s \in PageOrders}

(* The host's answer to a request for page p: the page's commits and the   *)
(* number of the page after it, 0 after the last.                          *)
PageResponse(ch, p) ==
    LET i == CHOOSE j \in 1..Len(ch) : ch[j].page = p IN
        [commits |-> ch[i].commits,
         NextPage |-> IF i = Len(ch) THEN 0 ELSE ch[i + 1].page]

(* A slip in the loop: the next page taken to be the one after this one.   *)
AfterPageCounting(commitsSoFar, page, resp) ==
    [allCommits |-> commitsSoFar \o resp.commits,
     last |-> resp.NextPage = 0,
     Page |-> IF resp.NextPage = 0 THEN page ELSE page + 1]

(* part_005:238-243  the page appended; the loop ends on NextPage == 0 and *)
(* otherwise asks for the page the response names.                         *)
AfterPage(commitsSoFar, page, resp) ==
    [allCommits |-> commitsSoFar \o resp.commits,
     last |-> resp.NextPage = 0,
     Page |-> IF resp.NextPage = 0 THEN page ELSE resp.NextPage]

InitPages ==
    /\ pageChain \in PageChains
    /\ optsPage = 1
    /\ allCommits = <<>>
    /\ pageRequests = <<>>
    /\ pagesPc = "list"
    /\ pagesOut = [commits |-> <<>>, err |-> nil]
    /\ CompareIdle
    /\ ParseIdle
    /\ RunIdle
    /\ LedgerIdle
    /\ ExtractIdle
    /\ PassIdle

(* part_005:233-244  one turn of the loop: the request, its error          *)
(* returned with a nil list, or its page appended.  A page the host does   *)
(* not have is an error of the request.                                    *)
ListCommits ==
    /\ pagesPc = "list"
    /\ pageRequests' = Append(pageRequests, [Page |-> optsPage, PerPage |-> PerPage])
    /\ \E ok \in BOOLEAN :
         IF ~ok \/ ~\E j \in 1..Len(pageChain) : pageChain[j].page = optsPage
         THEN /\ pagesOut' = [commits |-> <<>>, err |-> "ListCommits failed"]
              /\ pagesPc' = "done"
              /\ UNCHANGED <<optsPage, allCommits>>
         ELSE LET step == AfterPage(allCommits, optsPage,
                                    PageResponse(pageChain, optsPage)) IN
              /\ allCommits' = step.allCommits
              /\ optsPage' = step.Page
              /\ pagesPc' = IF step.last THEN "return" ELSE "list"
              /\ UNCHANGED pagesOut
    /\ UNCHANGED pageChain
    /\ UNCHANGED besidePages

(* part_005:246  return allCommits, nil                                    *)
ReturnAllCommits ==
    /\ pagesPc = "return"
    /\ pagesOut' = [commits |-> allCommits, err |-> nil]
    /\ pagesPc' = "done"
    /\ UNCHANGED <<pageChain, optsPage, allCommits, pageRequests>>
    /\ UNCHANGED besidePages

NextPages ==
    \/ ListCommits
    \/ ReturnAllCommits

(* The call runs on: a request is answered, the function returns.          *)
SpecPages == InitPages /\ [][NextPages]_vars /\ WF_vars(NextPages)

RECURSIVE ConcatPages(_, _)
ConcatPages(ch, n) ==
    IF n = 0 THEN <<>> ELSE ConcatPages(ch, n - 1) \o ch[n].commits

PagesReturned == pagesPc = "done"

(* What holds of the call at every moment.                                 *)
PagesInOrder ==
    /\ Len(pageRequests) <= Len(pageChain)
    /\ \A k \in 1..Len(pageRequests) :
         /\ pageRequests[k].Page = pageChain[k].page
         /\ pageRequests[k].PerPage = 100
    /\ (PagesReturned /\ pagesOut.err = nil) =>
         /\ Len(pageRequests) = Len(pageChain)
         /\ pagesOut.commits = ConcatPages(pageChain, Len(pageChain))
    /\ (PagesReturned /\ pagesOut.err # nil) => pagesOut.commits = <<>>

(* C25: getAllCommits requests page 1 with page size 100 and then the page *)
(* each response's nextPage names until a response has nextPage 0; for     *)
(* every finite chain of pages it terminates and returns the pages'        *)
(* commits concatenated in the order fetched, and when a request fails it  *)
(* returns the error with no partial list.                                 *)
C25_AllPagesInOrder == []PagesInOrder /\ <>PagesReturned

C25_Witness ==
    /\ PagesReturned
    /\ pagesOut.err = nil
    /\ Len(pageChain) = 3
    /\ pageChain[2].page = 3
    /\ Len(pagesOut.commits) >= 4

-----------------------------------------------------------------------------
(* parseGitURL called on one URL.                                          *)
InitParse ==
    /\ urlParts \in URLParts
    /\ url = BuildURL(urlParts)
    /\ parsePc = "parse"
    /\ parseOut = ParseResult(<<>>, <<>>, <<>>, nil)
    /\ CompareIdle
    /\ RunIdle
    /\ LedgerIdle
    /\ ExtractIdle
    /\ PassIdle
    /\ PagesIdle

(* part_005:16-28  one call of parseGitURL.                                *)
ParseGitURL ==
    /\ parsePc = "parse"
    /\ parseOut' = parseGitURL(url)
    /\ parsePc' = "done"
    /\ UNCHANGED <<urlParts, url>>
    /\ UNCHANGED besideParse

NextParse == ParseGitURL

SpecParse == InitParse /\ [][NextParse]_vars

-----------------------------------------------------------------------------
(* Properties of parseGitURL.                                              *)

Parsed == parsePc = "done"

(* The four forms of section 4.1: https://host/owner/repo[.git],           *)
(* git@host:owner/repo[.git], ssh://git@host:port/owner/repo[.git] and     *)
(* https://host:port/owner/repo[.git].                                     *)
WellFormedURL(p) ==
    /\ p.host # <<>> /\ Len(p.path) = 2
    /\ \/ p.scheme = "https"
       \/ p.scheme = "scp" /\ p.port = <<>>
       \/ p.scheme = "ssh" /\ p.port # <<>>

(* Fewer than host, owner and repo can be extracted: no scheme or user     *)
(* prefix to find the host by, no host, or fewer than two path segments.   *)
FewerThanThreeParts(p) ==
    p.scheme = "none" \/ p.host = <<>> \/ Len(p.path) < 2

Triple(r) == <<r.host, r.owner, r.repoName>>

(* C5: every URL of the four well-formed forms parses without error to the *)
(* host (without scheme, user or port), the owner and the repo (without    *)
(* .git) it was written from, and the same URL with and without .git       *)
(* parses to the same triple.                                              *)
C5_WellFormedURLsParse ==
    (Parsed /\ WellFormedURL(urlParts)) =>
        /\ parseOut.err = nil
        /\ Triple(parseOut) = <<urlParts.host, urlParts.path[1], urlParts.path[2]>>
        /\ Triple(parseOut) =
              Triple(parseGitURL(BuildURL([urlParts EXCEPT !.dotGit = ~@])))

(* C6: every URL from which fewer than host, owner and repo can be         *)
(* extracted (the empty string, not-a-url, git@github.com among them)      *)
(* gives an error with empty host, owner and repo.                         *)
C6_IncompleteURLsFail ==
    (Parsed /\ FewerThanThreeParts(urlParts)) =>
        /\ parseOut.err # nil
        /\ Triple(parseOut) = <<<<>>, <<>>, <<>>>>

-----------------------------------------------------------------------------
(* contextCompare, context.go:85-199, run after run over one project: a    *)
(* fresh one, or one that a first run has initialised.                     *)

World == [tree |-> tree, remote |-> remote, now |-> now, provider |-> provider]

InitRun ==
    /\ cfg \in [Commands : CommandLists, UseProjectKnowledge : BOOLEAN]
    /\ provider \in {"github", "gitlab", "unavailable"}
    /\ tree = "clean"
    /\ remote = "as cloned"
    /\ now = 0
    /\ \/ /\ staticFile = NoFile
          /\ dynFile = NoFile
       \/ /\ staticFile \in {File(defaultStaticContext), File(CustomStaticContext)}
          /\ dynFile = File(createPlaceHolderContext(cfg.Commands))
    /\ knowledgeFile = NoFile
    /\ runPc = "idle"
    /\ runs = 0
    /\ run = NoRun
    /\ prevRun = Past(NoRun)
    /\ CompareIdle
    /\ ParseIdle
    /\ LedgerIdle
    /\ ExtractIdle
    /\ PassIdle
    /\ PagesIdle

(* context.go:86-99  the run starts: the template is read, the default     *)
(* one written first when the file is missing.                             *)
ReadStaticPrompt ==
    /\ runPc = "idle"
    /\ runs < MaxRuns
    /\ runs' = runs + 1
    /\ prevRun' = Past(run)
    /\ run' = NewRun(tree, remote, staticFile, dynFile, knowledgeFile)
    /\ staticFile' = IF staticFile.exists THEN staticFile
                     ELSE File(defaultStaticContext)
    /\ runPc' = "gather"
    /\ UNCHANGED <<cfg, provider, tree, remote, now, dynFile, knowledgeFile>>
    /\ UNCHANGED besideRun

(* context.go:101-104  gatherContext; an error ends the process.           *)
GatherContext ==
    /\ runPc = "gather"
    /\ \E failAt \in 0..Len(cfg.Commands) :
         LET r == gatherContext(cfg.Commands, World, failAt)
             failed == ProducerFails(cfg.Commands, World, failAt) IN
         IF r.err # nil
         THEN /\ run' = [run EXCEPT !.outcome = "GatherFailed",
                                    !.producerFailed = failed]
              /\ runPc' = "idle"
         ELSE /\ run' = [run EXCEPT !.gathered = TRUE, !.fetched = r.text,
                                    !.producerFailed = failed]
              /\ runPc' = "compare"
    /\ UNCHANGED <<cfg, provider, tree, remote, now, staticFile, dynFile,
                   knowledgeFile, runs, prevRun>>
    /\ UNCHANGED besideRun

(* context.go:106-113  no stored snapshot: the placeholder is written.     *)
FirstRun ==
    /\ runPc = "compare"
    /\ ~dynFile.exists
    /\ dynFile' = File(createPlaceHolderContext(cfg.Commands))
    /\ run' = [run EXCEPT !.outcome = "FirstRun",
                          !.snapshotWrites = run.snapshotWrites + 1]
    /\ runPc' = "idle"
    /\ UNCHANGED <<cfg, provider, tree, remote, now, staticFile,
                   knowledgeFile, runs, prevRun>>
    /\ UNCHANGED besideRun

(* context.go:115-118  the gathered snapshot is the stored one.            *)
Unchanged ==
    /\ runPc = "compare"
    /\ dynFile.exists
    /\ SnapshotsEqual(run.fetched, dynFile.content)
    /\ run' = [run EXCEPT !.outcome = "Unchanged"]
    /\ runPc' = "idle"
    /\ UNCHANGED <<cfg, provider, tree, remote, now, staticFile, dynFile,
                   knowledgeFile, runs, prevRun>>
    /\ UNCHANGED besideRun

(* context.go:119-172  the snapshots differ: the prompt is built, with the *)
(* knowledge read when knowledge is enabled; a ledger that is missing is   *)
(* initialised, and the clock may move between its write and the text      *)
(* returned.                                                               *)
BuildPrompt ==
    /\ runPc = "compare"
    /\ dynFile.exists
    /\ ~SnapshotsEqual(run.fetched, dynFile.content)
    /\ IF cfg.UseProjectKnowledge
       THEN \E u \in (IF knowledgeFile.exists THEN {now}
                      ELSE {now, Min({now + 1, MaxClock})}) :
              LET k == readKnowledgeFile(knowledgeFile, now, u)
                  staticPrompt == staticFile.content \o KnowledgeSection(k.content)
              IN  /\ knowledgeFile' = k.file
                  /\ now' = u
                  /\ run' = [run EXCEPT
                         !.prompt = FinalPrompt(staticPrompt, run.fetched, dynFile.content),
                         !.ledgerReads = run.ledgerReads + 1,
                         !.ledgerWrites = run.ledgerWrites + (IF k.wrote THEN 1 ELSE 0)]
       ELSE /\ run' = [run EXCEPT
                   !.prompt = FinalPrompt(staticFile.content, run.fetched, dynFile.content)]
            /\ UNCHANGED <<knowledgeFile, now>>
    /\ runPc' = "summarize"
    /\ UNCHANGED <<cfg, provider, tree, remote, staticFile, dynFile, runs, prevRun>>
    /\ UNCHANGED besideRun

(* context.go:174-198 and the deferred write of :122-126  the summarizer   *)
(* is called and fails or answers; an answer's knowledge update goes to    *)
(* the ledger; the gathered snapshot is stored as the function returns.    *)
Summarize ==
    /\ runPc = "summarize"
    /\ \E ok \in BOOLEAN : \E summary \in Summaries :
         LET updatedKnowledge == KnowledgeUpdateOf(ok, cfg.UseProjectKnowledge, summary)
         IN  /\ knowledgeFile' =
                    IF updatedKnowledge # <<>>
                    THEN writeKnowledgeFile(knowledgeFile, updatedKnowledge, now)
                    ELSE knowledgeFile
             /\ dynFile' = DeferredSnapshot(dynFile, run.fetched, ok)
             /\ run' = [run EXCEPT
                    !.outcome = "Changed",
                    !.summarized = IF ok THEN "ok" ELSE "failed",
                    !.summarizerCalls = run.summarizerCalls + 1,
                    !.snapshotWrites = run.snapshotWrites + 1,
                    !.ledgerWrites = run.ledgerWrites
                        + (IF updatedKnowledge # <<>> THEN 1 ELSE 0),
                    !.updatedKnowledge = updatedKnowledge,
                    !.knowledgeUpdates = run.knowledgeUpdates
                        + (IF updatedKnowledge # <<>> THEN 1 ELSE 0)]
    /\ runPc' = "idle"
    /\ UNCHANGED <<cfg, provider, tree, remote, now, staticFile, runs, prevRun>>
    /\ UNCHANGED besideRun

(* Before a run: time passes, the developer edits or commits, the remote   *)
(* moves.                                                                  *)
Tick ==
    /\ runPc = "idle"
    /\ runs < MaxRuns
    /\ now < MaxClock
    /\ now' = now + 1
    /\ UNCHANGED <<cfg, provider, tree, remote, staticFile, dynFile,
                   knowledgeFile, runPc, runs, run, prevRun>>
    /\ UNCHANGED besideRun

WorkingTreeChanges ==
    /\ runPc = "idle"
    /\ runs < MaxRuns
    /\ \E t \in TreeStates \ {tree} : tree' = t
    /\ UNCHANGED <<cfg, provider, remote, now, staticFile, dynFile,
                   knowledgeFile, runPc, runs, run, prevRun>>
    /\ UNCHANGED besideRun

RemoteChanges ==
    /\ runPc = "idle"
    /\ runs < MaxRuns
    /\ \E r \in RemoteStates \ {remote} : remote' = r
    /\ UNCHANGED <<cfg, provider, tree, now, staticFile, dynFile,
                   knowledgeFile, runPc, runs, run, prevRun>>
    /\ UNCHANGED besideRun

NextRun ==
    \/ ReadStaticPrompt
    \/ GatherContext
    \/ FirstRun
    \/ Unchanged
    \/ BuildPrompt
    \/ Summarize
    \/ Tick
    \/ WorkingTreeChanges
    \/ RemoteChanges

SpecRun == InitRun /\ [][NextRun]_vars

-----------------------------------------------------------------------------
(* Claims about the compare loop.                                          *)

RunEnded == runs > 0 /\ runPc = "idle"

(* The run's case, told from what it found and gathered.                   *)
NoPriorSnapshot == runs > 0 /\ ~run.startDyn.exists
SameAsPrior ==
    runs > 0 /\ run.gathered /\ run.startDyn.exists
    /\ run.fetched = run.startDyn.content
DiffersFromPrior ==
    runs > 0 /\ run.gathered /\ run.startDyn.exists
    /\ run.fetched # run.startDyn.content

(* A snapshot read back: the text cut at the entry delimiters.             *)
Pieces(text) == Split(text, "---CONTEXT FROM: ")
WellDelimited(text) ==
    LET parts == Pieces(text) IN
    /\ parts[1] = <<>>
    /\ \A i \in 2..Len(parts) :
         LET p == parts[i] IN
         /\ \E k \in 1..Len(p) : p[k] = " ---"
         /\ LET k == Min({j \in 1..Len(p) : p[j] = " ---"}) IN
            /\ Len(p) >= k + 3
            /\ p[k + 1] = "\n"
            /\ p[Len(p) - 1] = "\n"
            /\ p[Len(p)] = "\n"
Entries(text) ==
    LET parts == Pieces(text) IN
    [i \in 1..(Len(parts) - 1) |->
        LET p == parts[i + 1]
            k == Min({j \in 1..Len(p) : p[j] = " ---"})
        IN  [name |-> SubSeq(p, 1, k - 1), body |-> SubSeq(p, k + 2, Len(p) - 2)]]

(* C7: two consecutive runs on the same working tree and the same remote   *)
(* state gather the same snapshot, so the run after a completed Changed    *)
(* run is Unchanged: no Summarizer call, no file written.                  *)
C7_RepeatedRunIsUnchanged ==
    (/\ RunEnded
     /\ prevRun.outcome = "Changed"
     /\ run.gathered
     /\ run.startTree = prevRun.startTree
     /\ run.startRemote = prevRun.startRemote)
    => /\ run.fetched = prevRun.fetched
       /\ run.outcome = "Unchanged"
       /\ run.summarizerCalls = 0
       /\ run.snapshotWrites = 0
       /\ dynFile = run.startDyn

(* C8: in a run whose gathered snapshot differs from the stored one the    *)
(* Summarizer is invoked exactly once, and when the run has returned the   *)
(* stored snapshot is the gathered one, whether the Summarizer succeeded   *)
(* or failed.                                                              *)
C8_ChangedRunStoresGathered ==
    DiffersFromPrior =>
        /\ run.summarizerCalls <= 1
        /\ runPc = "idle" =>
              /\ run.outcome = "Changed"
              /\ run.summarizerCalls = 1
              /\ run.summarized \in {"ok", "failed"}
              /\ dynFile = File(run.fetched)

C8_Witness ==
    /\ RunEnded
    /\ DiffersFromPrior
    /\ run.summarized = "failed"
    /\ dynFile.content = run.fetched
    /\ prevRun.outcome = "Changed"
    /\ prevRun.summarized = "ok"

C10_UnchangedRunTouchesNothing ==
    SameAsPrior =>
        /\ run.snapshotWrites = 0
        /\ run.summarizerCalls = 0
        /\ run.ledgerWrites = 0
        /\ dynFile = run.startDyn
        /\ knowledgeFile = run.startKnowledge
        /\ runPc \in {"compare", "idle"}
        /\ runPc = "idle" => run.outcome = "Unchanged"

C10_Witness ==
    /\ RunEnded
    /\ SameAsPrior
    /\ run.outcome = "Unchanged"
    /\ cfg.UseProjectKnowledge
    /\ knowledgeFile.exists
    /\ prevRun.outcome = "Changed"

(* C11 as stated: a run in which a producer returns an error persists     *)
(* nothing: the stored snapshot keeps its content (or stays absent) and no *)
(* other file of the snapshot store (the prompt template) or of the        *)
(* knowledge ledger is created or written, on the first run of a project   *)
(* as on any other.                                                        *)
C11_GatherFailurePersistsNothing ==
    (RunEnded /\ run.producerFailed) =>
        /\ ~run.gathered
        /\ run.snapshotWrites = 0
        /\ run.ledgerWrites = 0
        /\ dynFile = run.startDyn
        /\ knowledgeFile = run.startKnowledge
        /\ staticFile = run.startStatic

(* C11 amended: a run in which a producer returns an error produces no     *)
(* snapshot, leaves the stored snapshot and the knowledge ledger as they   *)
(* were, and writes no file but the default prompt template, which it      *)
(* creates when that file is missing; a template that exists is kept.      *)
C11_GatherFailureKeepsSnapshotAndLedger ==
    (runs > 0 /\ run.producerFailed) =>
        /\ runPc = "idle"
        /\ run.outcome = "GatherFailed"
        /\ ~run.gathered
        /\ run.snapshotWrites = 0
        /\ run.summarizerCalls = 0
        /\ run.ledgerReads = 0
        /\ run.ledgerWrites = 0
        /\ dynFile = run.startDyn
        /\ knowledgeFile = run.startKnowledge
        /\ staticFile = IF run.startStatic.exists THEN run.startStatic
                        ELSE File(defaultStaticContext)

C11_Witness ==
    /\ RunEnded
    /\ run.producerFailed
    /\ run.startDyn.exists
    /\ prevRun.outcome = "Changed"
    /\ dynFile.content = prevRun.fetched
    /\ cfg.UseProjectKnowledge

(* The entries of a ledger file: what a later write would keep of it.      *)
LedgerBody(file) ==
    IF ~file.exists \/ ExistingContent(file) = InitialContent THEN <<>>
    ELSE ExistingContent(file)

(* C27: an insight entry is prepended to the ledger in a run only if the   *)
(* run is Changed, project knowledge is enabled, the Summarizer returned   *)
(* successfully and extractKnowledgeUpdate of its response is non-empty;   *)
(* at most one entry is prepended per run, and when the Summarizer fails   *)
(* the existing ledger entries are left unchanged.                         *)
C27_EntryOnlyFromSuccessfulChangedRun ==
    runs > 0 =>
        /\ run.knowledgeUpdates <= 1
        /\ run.knowledgeUpdates = 1 =>
              /\ run.outcome = "Changed"
              /\ cfg.UseProjectKnowledge
              /\ run.summarized = "ok"
              /\ run.updatedKnowledge # <<>>
              /\ \E t, u \in 0..MaxClock :
                    knowledgeFile = writeKnowledgeFile(
                        IF run.startKnowledge.exists THEN run.startKnowledge
                        ELSE File(FirstEntry(FormatTime(t), InitialContent)),
                        run.updatedKnowledge, u)
        /\ run.knowledgeUpdates = 0 =>
              LedgerBody(knowledgeFile) = LedgerBody(run.startKnowledge)
        /\ run.summarized = "failed" =>
              /\ run.knowledgeUpdates = 0
              /\ LedgerBody(knowledgeFile) = LedgerBody(run.startKnowledge)

C27_Witness ==
    /\ RunEnded
    /\ runs = 2
    /\ run.outcome = "Changed"
    /\ run.knowledgeUpdates = 1
    /\ LedgerBody(run.startKnowledge) # <<>>
    /\ LedgerBody(knowledgeFile) # LedgerBody(run.startKnowledge)

(* C30: if a Changed run returns and the next run gathers a snapshot       *)
(* byte-identical to the one gathered in that Changed run, the next run is *)
(* Unchanged, whether the Summarizer succeeded or failed in the Changed    *)
(* run: the Summarizer is invoked at most once per gathered state.         *)
C30_SameSnapshotAfterChangedIsUnchanged ==
    (/\ runs > 1
     /\ prevRun.outcome = "Changed"
     /\ run.gathered
     /\ run.fetched = prevRun.fetched
     /\ runPc \notin {"gather", "compare"})
    => /\ run.outcome = "Unchanged"
       /\ runPc = "idle"
       /\ run.summarizerCalls = 0

C30_Witness ==
    /\ RunEnded
    /\ prevRun.outcome = "Changed"
    /\ prevRun.summarized = "failed"
    /\ run.gathered
    /\ run.fetched = prevRun.fetched
    /\ run.outcome = "Unchanged"

-----------------------------------------------------------------------------
(* The prompt of a Changed run, context.go:128-172, over templates and     *)
(* snapshots that mention the placeholders themselves.                     *)

(* Templates in .xplane/static_context.txt: the default one, one of the    *)
(* user's, and one that uses a placeholder twice.                          *)
PromptTemplates ==
    {defaultStaticContext, CustomStaticContext,
     <<"Before: ", "{{PREVIOUS_CONTEXT}}", "\n", "After: ", "{{CURRENT_CONTEXT}}", "\n",
       "Again before: ", "{{PREVIOUS_CONTEXT}}", "\n">>}

(* Snapshots: sections of command output.  A diff of the file that holds   *)
(* the default template shows the placeholders in its lines.               *)
PromptSnapshots ==
    {Section(<<"git_status">>, StdOut(<<"git_status">>, "clean")),
     Section(<<"git_status">>, StdOut(<<"git_status">>, "edited")),
     Section(<<"git_diff">>,
             <<"+", "{{PREVIOUS_CONTEXT}}", "\n", "+", "{{CURRENT_CONTEXT}}">>),
     Section(<<"git_log">>, <<"* 1a2b3c4 document ", "{{PREVIOUS_CONTEXT}}">>),
     createPlaceHolderContext(<<<<"git_status">>>>)}

(* A run that has gathered a snapshot differing from the stored one.       *)
InitPrompt ==
    /\ cfg \in [Commands : {<<<<"git_status">>>>}, UseProjectKnowledge : BOOLEAN]
    /\ provider = "unavailable"
    /\ tree = "clean"
    /\ remote = "as cloned"
    /\ now = 0
    /\ staticFile \in {File(t) : t \in PromptTemplates}
    /\ dynFile \in {File(s) : s \in PromptSnapshots}
    /\ knowledgeFile \in {NoFile, File(FirstEntry(FormatTime(0), InitialContent))}
    /\ runPc = "compare"
    /\ runs = 1
    /\ \E fetched \in PromptSnapshots \ {dynFile.content} :
         run = [NewRun(tree, remote, staticFile, dynFile, knowledgeFile)
                  EXCEPT !.gathered = TRUE, !.fetched = fetched]
    /\ prevRun = Past(NoRun)
    /\ CompareIdle
    /\ ParseIdle
    /\ LedgerIdle
    /\ ExtractIdle
    /\ PassIdle
    /\ PagesIdle

NextPrompt ==
    \/ BuildPrompt
    \/ Summarize

SpecPrompt == InitPrompt /\ [][NextPrompt]_vars

(* The template with each placeholder replaced, in one pass, by the text   *)
(* that belongs in its place; the inserted text is not looked at again.    *)
RECURSIVE SubstituteLiterally(_, _, _)
SubstituteLiterally(template, previous, current) ==
    IF template = <<>> THEN <<>>
    ELSE (CASE Head(template) = "{{PREVIOUS_CONTEXT}}" -> previous
            [] Head(template) = "{{CURRENT_CONTEXT}}" -> current
            [] OTHER -> <<Head(template)>>)
         \o SubstituteLiterally(Tail(template), previous, current)

(* The template of the run: the static prompt and, with knowledge enabled, *)
(* the knowledge section around what readKnowledgeFile returned.           *)
TemplateOfRun ==
    IF cfg.UseProjectKnowledge
    THEN staticFile.content \o
         KnowledgeSection(IF run.startKnowledge.exists THEN run.startKnowledge.content
                          ELSE FirstEntry(FormatTime(now), InitialContent))
    ELSE staticFile.content

PromptBuilt == runPc = "summarize"

(* C26: the prompt handed to the Summarizer equals the template with every *)
(* {{PREVIOUS_CONTEXT}} replaced by the prior snapshot and every           *)
(* {{CURRENT_CONTEXT}} by the current one, literally: text that comes from *)
(* a snapshot is inserted as is, even when it contains a placeholder.      *)
C26_PromptSubstitutesLiterally ==
    PromptBuilt =>
        run.prompt = SubstituteLiterally(TemplateOfRun, dynFile.content, run.fetched)

-----------------------------------------------------------------------------
(* The knowledge ledger called directly: readKnowledgeFile and             *)
(* writeKnowledgeFile, context.go:202-260, call after call on one file.    *)

MaxWrites == 3   \* calls of writeKnowledgeFile in one history

(* The bodies contextCompare hands to writeKnowledgeFile are results of    *)
(* extractKnowledgeUpdate (context.go:181-182): trimmed and of at least    *)
(* MinKnowledgeLen bytes.  One of them is the text of the ledger's own     *)
(* placeholder, which the prompt shows to the summarizer.                  *)
Bodies ==
    {b \in {<<"Architecture: the providers sit behind one GitProvider interface.">>,
            <<"###", " ", "Recent Changes", "\n",
              "-", " ", "parseGitURL learned the ssh form of a remote URL.">>,
            <<"---", "\n", "##", " ", "Previous Knowledge", "\n",
              "The older notes were folded into this entry by the summarizer.">>,
            InitialContent} :
        TrimSpace(b) = b /\ ByteLen(b) >= MinKnowledgeLen}

InitLedger ==
    /\ bodies = <<>>
    /\ writeTimes = <<>>
    /\ lastRead = NoRead
    /\ knowledgeFile = NoFile
    /\ now = 0
    /\ cfg = [Commands |-> <<>>, UseProjectKnowledge |-> TRUE]
    /\ provider = "unavailable"
    /\ tree = "clean"
    /\ remote = "as cloned"
    /\ staticFile = NoFile
    /\ dynFile = NoFile
    /\ runPc = "off"
    /\ runs = 0
    /\ run = NoRun
    /\ prevRun = Past(NoRun)
    /\ CompareIdle
    /\ ParseIdle
    /\ ExtractIdle
    /\ PassIdle
    /\ PagesIdle

besideLedger == <<cmpVars, parseVars, extractVars, passVars, pagesVars, cfg, provider, tree, remote, staticFile,
                  dynFile, runPc, runs, run, prevRun>>

(* context.go:202-224  a read; it initialises a ledger that is missing,    *)
(* and then reads the clock a second time (:218), at u, for the text it    *)
(* returns.                                                                *)
ReadKnowledge ==
    /\ runPc = "off"
    /\ \E u \in (IF knowledgeFile.exists THEN {now}
                  ELSE {now, Min({now + 1, MaxClock})}) :
         LET k == readKnowledgeFile(knowledgeFile, now, u) IN
           /\ knowledgeFile' = k.file
           /\ now' = u
           /\ lastRead' = [called |-> TRUE, before |-> knowledgeFile,
                           after |-> k.file, content |-> k.content]
    /\ UNCHANGED <<bodies, writeTimes>>
    /\ UNCHANGED besideLedger

(* context.go:227-260  a write of an extracted update.                     *)
WriteKnowledge ==
    /\ runPc = "off"
    /\ Len(bodies) < MaxWrites
    /\ \E b \in Bodies :
         /\ knowledgeFile' = writeKnowledgeFile(knowledgeFile, b, now)
         /\ bodies' = Append(bodies, b)
         /\ writeTimes' = Append(writeTimes, now)
    /\ UNCHANGED <<now, lastRead>>
    /\ UNCHANGED besideLedger

(* Time passes between two calls.                                          *)
ClockAdvances ==
    /\ runPc = "off"
    /\ Len(bodies) < MaxWrites
    /\ now < MaxClock
    /\ now' = now + 1
    /\ UNCHANGED <<bodies, writeTimes, lastRead, knowledgeFile>>
    /\ UNCHANGED besideLedger

NextLedger ==
    \/ ReadKnowledge
    \/ WriteKnowledge
    \/ ClockAdvances

SpecLedger == InitLedger /\ [][NextLedger]_vars
-----------------------------------------------------------------------------
(* Claims about the ledger.                                                *)

(* b occurs in text at position i, atom for atom.                          *)
OccursAt(text, b, i) ==
    /\ i >= 1
    /\ i + Len(b) - 1 <= Len(text)
    /\ SubSeq(text, i, i + Len(b) - 1) = b

(* The first place from position from on where b occurs in text; 0: none.  *)
FirstAt(text, b, from) ==
    LET at == {i \in from..Len(text) : OccursAt(text, b, i)} IN
    IF at = {} THEN 0 ELSE Min(at)

(* The bodies bs[1..k] all occur in text from position from on, each one   *)
(* below the ones written after it.                                        *)
RECURSIVE NewestFirst(_, _, _, _)
NewestFirst(text, bs, k, from) ==
    IF k = 0 THEN TRUE
    ELSE LET at == FirstAt(text, bs[k], from) IN
         /\ at # 0
         /\ NewestFirst(text, bs, k - 1, at + Len(bs[k]))

Timestamps == {FormatTime(t) : t \in 0..MaxClock}

(* A body dropped by the rule of context.go:250: the placeholder's text,   *)
(* written when the ledger held nothing else.                              *)
RECURSIVE Kept(_)
Kept(bs) ==
    IF bs = <<>> THEN <<>>
    ELSE IF Len(bs) >= 2 /\ Head(bs) = InitialContent THEN Kept(Tail(bs))
    ELSE bs

(* C12 as stated: after writes of b1..bn the ledger contains every body,   *)
(* none deleted or merged, newest first.                                   *)
C12_EveryBodyKeptNewestFirst ==
    bodies # <<>> =>
        NewestFirst(knowledgeFile.content, bodies, Len(bodies), 1)

(* C12 amended: after writes of b1..bn the ledger contains, newest first,  *)
(* every body but those equal to the placeholder's text that were written  *)
(* while the ledger held no other entry: such a body is replaced by the    *)
(* write that follows it.                                                  *)
C12_BodiesKeptNewestFirst ==
    bodies # <<>> =>
        /\ knowledgeFile.exists
        /\ NewestFirst(knowledgeFile.content, Kept(bodies), Len(Kept(bodies)), 1)
        /\ (\A i \in 1..Len(bodies) : bodies[i] # InitialContent)
              => Kept(bodies) = bodies

C12_Witness ==
    /\ Len(bodies) = 3
    /\ \A i \in 1..3 : bodies[i] # InitialContent
    /\ bodies[1] # bodies[2]
    /\ bodies[2] # bodies[3]
    /\ FirstAt(knowledgeFile.content, bodies[3], 1)
         < FirstAt(knowledgeFile.content, bodies[1], 1)

(* The ledger after two writes, as the claim lays it out.                  *)
TwoEntryLedger(ts, b1, b2) ==
    <<"#", " ", "Project Knowledge", "\n", "\n", "*Last updated: ", ts, "*", "\n", "\n">>
    \o <<"##", " ", "Latest Update (", ts, ")", "\n", "\n">>
    \o b2
    \o <<"\n", "\n", "---", "\n", "\n">>
    \o <<"##", " ", "Previous Knowledge", "\n", "\n">>
    \o b1

(* C13 as stated: two writes, b1 then b2, leave b2 under a Latest Update   *)
(* heading, a separator, and a Previous Knowledge section holding b1       *)
(* verbatim, for every b1 and b2.                                          *)
C13_TwoWritesLayout ==
    Len(bodies) = 2 =>
        \E ts \in Timestamps :
            knowledgeFile.content = TwoEntryLedger(ts, bodies[1], bodies[2])

(* C13 amended: the same for every b2 and every b1 that is not the         *)
(* placeholder's text; after a b1 equal to the placeholder's text the      *)
(* ledger holds b2 alone, with no Latest Update heading.                   *)
C13_TwoWritesLayoutUnlessPlaceholder ==
    Len(bodies) = 2 =>
        \E ts \in Timestamps :
            knowledgeFile.content =
                IF bodies[1] = InitialContent
                THEN <<"#", " ", "Project Knowledge", "\n", "\n",
                       "*Last updated: ", ts, "*", "\n", "\n">> \o bodies[2]
                ELSE TwoEntryLedger(ts, bodies[1], bodies[2])

C13_Witness ==
    /\ Len(bodies) = 2
    /\ bodies[1] # InitialContent
    /\ Len(bodies[1]) > 1
    /\ bodies[1] # bodies[2]
    /\ \E ts \in Timestamps :
          knowledgeFile.content = TwoEntryLedger(ts, bodies[1], bodies[2])

(* C21: readKnowledgeFile on a missing ledger persists the header, a       *)
(* current timestamp and the placeholder body and returns exactly the      *)
(* content it persisted; on an existing ledger it returns the file content *)
(* and writes nothing.                                                     *)
C21_ReadReturnsWhatItPersisted ==
    lastRead.called =>
        IF lastRead.before.exists
        THEN /\ lastRead.content = lastRead.before.content
             /\ lastRead.after = lastRead.before
        ELSE /\ \E t \in 0..MaxClock :
                  lastRead.after = File(FirstEntry(FormatTime(t), InitialContent))
             /\ lastRead.content = lastRead.after.content

(* Body b stands in text under the timestamp ts: right below a Latest      *)
(* Update heading or the last-updated line that carries ts.                *)
Stamped(text, b, ts) ==
    \E i \in 1..Len(text) :
        /\ OccursAt(text, b, i)
        /\ \/ OccursAt(text, <<"Latest Update (", ts, ")", "\n", "\n">>, i - 5)
           \/ OccursAt(text, <<"*Last updated: ", ts, "*", "\n", "\n">>, i - 5)

(* C28: after any sequence of writeKnowledgeFile calls every entry body    *)
(* kept in the ledger is accompanied by the timestamp of the call that     *)
(* wrote it; no entry loses its timestamp when a later one is prepended.   *)
C28_EntriesKeepTheirTimestamps ==
    \A i \in 1..Len(bodies) :
        i > Len(bodies) - Len(Kept(bodies)) =>
            Stamped(knowledgeFile.content, bodies[i], FormatTime(writeTimes[i]))

-----------------------------------------------------------------------------
(* extractKnowledgeUpdate, context.go:263-322, over a response, one pass   *)
(* of its loop at a time.                                                  *)

MaxLines == 2    \* lines of a response put together freely
MaxBlock == 4    \* lines of the content block of a response with a section

(* Lines a summarizer writes.                                              *)
Blank            == <<>>
KnowledgeHeading == <<"##", " ", "KNOWLEDGE UPDATE">>
LowerHeading     == <<"###", " ", "Knowledge Update">>
ProseMention     == <<"No ", "knowledge update", " is needed for this change.">>
ContentLine      == <<"The release workflow now signs its artifacts before the upload.">>
ShortLine        == <<"Fixed a typo.">>
WideLine         == <<CheckMarks>>
OtherHeading     == <<"##", " ", "Something Else">>
TopHeading       == <<"#", " ", "Summary">>
SubHeading       == <<"###", " ", "Details">>
NotesHeading     == <<"##", " ", "Knowledge Notes">>
UncertaintyLine  == <<"##", " ", "UNCERTAINTY MAP">>
IrrelevantLine   == <<"Irrelevant">>

LinePool ==
    {Blank, KnowledgeHeading, LowerHeading, ProseMention, ContentLine, ShortLine,
     WideLine, OtherHeading, TopHeading, SubHeading, NotesHeading, UncertaintyLine,
     IrrelevantLine}

SeqsUpTo(S, n) == UNION {[1..k -> S] : k \in 0..n}

(* Responses put together freely, and responses with a section: a line     *)
(* that opens it, a content block, and what follows the block.             *)
FreeResponses == SeqsUpTo(LinePool, MaxLines)

SectionResponses ==
    {<<h>> \o lead \o block \o gap \o tail :
        h \in {KnowledgeHeading, LowerHeading, ProseMention},
        lead \in {<<>>, <<Blank>>},
        block \in SeqsUpTo({ContentLine, ShortLine}, MaxBlock) \ {<<>>},
        gap \in {<<>>, <<Blank>>},
        tail \in SeqsUpTo({OtherHeading, SubHeading, NotesHeading,
                           UncertaintyLine, IrrelevantLine}, 2)}

Responses == {Join(ls, "\n") : ls \in FreeResponses \cup SectionResponses}

responseLines == Split(responseText, "\n")

InitExtract ==
    /\ responseText \in Responses
    /\ extractLoop = ScanStart
    /\ extractPc = "scan"
    /\ extractOut = <<>>
    /\ CompareIdle
    /\ ParseIdle
    /\ RunIdle
    /\ LedgerIdle
    /\ PassIdle
    /\ PagesIdle

(* context.go:269-301  one pass of the loop, on line extractLoop.i.        *)
ScanNextLine ==
    /\ extractPc = "scan"
    /\ LET s == ScanLine(responseLines, extractLoop.i, extractLoop.inKnowledgeSection,
                         extractLoop.foundHeader, extractLoop.knowledgeLines)
       IN  /\ extractLoop' = [i |-> extractLoop.i + 1,
                              inKnowledgeSection |-> s.inKnowledgeSection,
                              foundHeader |-> s.foundHeader,
                              knowledgeLines |-> s.knowledgeLines,
                              did |-> s.did,
                              line |-> responseLines[extractLoop.i],
                              captured |-> Len(extractLoop.knowledgeLines)]
           /\ extractPc' = IF s.break \/ extractLoop.i = Len(responseLines)
                           THEN "finish" ELSE "scan"
    /\ UNCHANGED <<responseText, extractOut>>
    /\ UNCHANGED besideExtract

(* context.go:303-321  after the loop: the clean-up and the safeguard.     *)
FinishExtraction ==
    /\ extractPc = "finish"
    /\ extractOut' = FinishExtract(extractLoop.knowledgeLines)
    /\ extractPc' = "done"
    /\ UNCHANGED <<responseText, extractLoop>>
    /\ UNCHANGED besideExtract

NextExtract ==
    \/ ScanNextLine
    \/ FinishExtraction

SpecExtract == InitExtract /\ [][NextExtract]_vars

-----------------------------------------------------------------------------
(* Claims about extractKnowledgeUpdate.                                    *)

Extracted == extractPc = "done"

(* A markdown heading: hashes, a blank, a title.                           *)
IsHeadingLine(line) ==
    LET t == TrimSpace(line) IN
    Len(t) >= 3 /\ t[1] \in {"#", "##", "###"} /\ t[2] = " "

MentionsKnowledgeUpdate(line) ==
    \E i \in 1..Len(line) :
        line[i] \in {"KNOWLEDGE UPDATE", "Knowledge Update", "knowledge update"}
MentionsKnowledge(line) ==
    \/ MentionsKnowledgeUpdate(line)
    \/ \E i \in 1..Len(line) : line[i] \in {"Knowledge Notes", "knowledge"}
MentionsUncertaintyMap(line) ==
    \E i \in 1..Len(line) : line[i] \in {"UNCERTAINTY MAP", "Uncertainty Map"}
IsBlankLine(line) == \A i \in 1..Len(line) : line[i] \in {" ", "\t", "\r"}

(* The response of C14: '## KNOWLEDGE UPDATE', a blank line, a content     *)
(* block of n lines, a blank line, '## Something Else', further text.      *)
SectionThenHeading(n) ==
    /\ n >= 1
    /\ Len(responseLines) >= n + 5
    /\ responseLines[1] = <<"##", " ", "KNOWLEDGE UPDATE">>
    /\ responseLines[2] = <<>>
    /\ \A i \in 3..(n + 2) : responseLines[i] \in {ContentLine, ShortLine}
    /\ responseLines[n + 3] = <<>>
    /\ responseLines[n + 4] = <<"##", " ", "Something Else">>
ContentBlock(n) == Join(SubSeq(responseLines, 3, n + 2), "\n")

C15_EmptyOrFiftyCharacters ==
    Extracted =>
        /\ \/ extractOut = <<>>
           \/ /\ CharLen(extractOut) >= 50
              /\ ~IsSpace(extractOut[1])
              /\ ~IsSpace(extractOut[Len(extractOut)])
        /\ (\A i \in 1..Len(responseLines) : ~MentionsKnowledgeUpdate(responseLines[i]))
              => extractOut = <<>>

(* C19: capture starts only at a heading that contains KNOWLEDGE UPDATE in *)
(* any letter case, and that line is not captured; a line that is no       *)
(* heading does not start capture.                                         *)
C19_CaptureStartsAtHeadingOnly ==
    extractLoop.did = "header" =>
        /\ IsHeadingLine(extractLoop.line)
        /\ MentionsKnowledgeUpdate(extractLoop.line)
        /\ extractLoop.knowledgeLines = <<>>

(* C20: while capturing, a line ends the capture only if it is a heading   *)
(* that does not mention knowledge met with at least 4 lines captured, or  *)
(* mentions UNCERTAINTY MAP with at least one line captured; every other   *)
(* line, the leading blank lines aside, is appended and the capture goes   *)
(* on, so a heading met with fewer than 4 lines captured is appended.      *)
MayEndCapture(line, captured) ==
    \/ IsHeadingLine(line) /\ ~MentionsKnowledge(line) /\ captured >= 4
    \/ MentionsUncertaintyMap(line) /\ captured >= 1

C20_CaptureEndsOnlyAtBoundary ==
    (extractLoop.inKnowledgeSection /\ extractLoop.did \notin {"none", "header"}) =>
        /\ extractLoop.did \in {"skipped", "ended", "appended"}
        /\ extractLoop.did = "ended" =>
              /\ MayEndCapture(extractLoop.line, extractLoop.captured)
              /\ Len(extractLoop.knowledgeLines) = extractLoop.captured
        /\ extractLoop.did = "skipped" =>
              /\ extractLoop.captured = 0
              /\ IsBlankLine(extractLoop.line)
              /\ extractLoop.knowledgeLines = <<>>
        /\ ~MayEndCapture(extractLoop.line, extractLoop.captured) =>
              \/ extractLoop.did = "skipped"
              \/ /\ extractLoop.did = "appended"
                 /\ Len(extractLoop.knowledgeLines) = extractLoop.captured + 1
                 /\ extractLoop.knowledgeLines[extractLoop.captured + 1]
                      = extractLoop.line
                 /\ extractPc = "scan" \/ extractLoop.i > Len(responseLines)

C20_Witness ==
    /\ extractLoop.inKnowledgeSection
    /\ extractLoop.did = "ended"
    /\ IsHeadingLine(extractLoop.line)
    /\ extractLoop.captured = 4
    /\ IsHeadingLine(extractLoop.knowledgeLines[4])

-----------------------------------------------------------------------------
(* One gathering pass with its provider: initProvider, the loop of         *)
(* gatherContext over the commands, and the provider methods the handlers  *)
(* call (context.go:25-83, part_007, commands.go:170-202, part_005).       *)

(* Remote URLs, in pieces: the host name is the second piece.  The third   *)
(* is a GitLab project whose name mentions GitHub.                         *)
RemoteURLs ==
    {<<"https://", "github", ".com/acme/", "xplane", ".git">>,
     <<"git@", "gitlab", ".com:acme/", "xplane", ".git">>,
     <<"https://", "gitlab", ".com/acme/", "github", "-mirror.git">>,
     <<"https://", "codeberg", ".org/acme/", "xplane", ".git">>}

TokenConfigs ==
    [GithubToken : {EmptyString, "ghp_token"}, GitlabToken : {EmptyString, "glpat_token"}]

(* strings.Contains(s, word) for a word that is a piece of s.              *)
Contains(s, word) == \E i \in 1..Len(s) : s[i] = word

(* A slip in the construction: a provider built whatever the token.        *)
getGitProviderUnchecked(remoteURL, config) ==
    IF Contains(remoteURL, "github") THEN [provider |-> "github", err |-> nil]
    ELSE IF Contains(remoteURL, "gitlab") THEN [provider |-> "gitlab", err |-> nil]
    ELSE [provider |-> "nil", err |-> "xplane: unsupported git provider"]

(* commands.go:170-202  getGitProvider, from the primary remote on: the    *)
(* kind is looked for in the whole URL, GitHub first.                      *)
getGitProvider(remoteURL, config) ==
    IF Contains(remoteURL, "github")
    THEN IF config.GithubToken = EmptyString
         THEN [provider |-> "nil",
               err |-> "special command 'github_prs' requires GITHUB_TOKEN to be set"]
         ELSE [provider |-> "github", err |-> nil]
    ELSE IF Contains(remoteURL, "gitlab")
    THEN IF config.GitlabToken = EmptyString
         THEN [provider |-> "nil",
               err |-> "special command 'gitlab_mrs' requires GITLAB_TOKEN to be set"]
         ELSE [provider |-> "gitlab", err |-> nil]
    ELSE [provider |-> "nil", err |-> "xplane: unsupported git provider"]

(* What a request to the host can meet.                                    *)
Situations ==
    {"found", "absent", "unknown project", "unauthorized", "rate limited",
     "server error", "unreachable"}

Response(status, e, rels) ==
    [hasResp |-> status # 0, StatusCode |-> status, err |-> e, releases |-> rels]

(* The (response, error) pair the client library hands back.  The hosts    *)
(* differ on a project without a release: GitHub's latest-release endpoint *)
(* answers 404, GitLab's release list answers 200 with an empty list.      *)
HostResponse(v, api, situation) ==
    CASE situation = "found" -> Response(200, nil, <<"v1.2.0">>)
      [] situation = "absent" ->
            IF v = "gitlab" /\ api = "releases" THEN Response(200, nil, <<>>)
            ELSE Response(404, "ErrorResponse", <<>>)
      [] situation = "unknown project" -> Response(404, "ErrorResponse", <<>>)
      [] situation = "unauthorized" -> Response(401, "ErrorResponse", <<>>)
      [] situation = "rate limited" ->
            IF v = "github" THEN Response(403, "RateLimitError", <<>>)
            ELSE Response(429, "ErrorResponse", <<>>)
      [] situation = "server error" -> Response(500, "ErrorResponse", <<>>)
      [] OTHER -> Response(0, "url.Error", <<>>)

Returns(v, e) == [value |-> v, err |-> e]

NoReleasesFound == [TagName |-> "No releases found"]
ZeroRelease == [TagName |-> EmptyString]

(* A slip in the release lookup: every error handed on, an empty list      *)
(* taken for a failure.                                                    *)
GetLatestReleaseStrict(v, r) ==
    IF r.err # nil \/ r.releases = <<>>
    THEN Returns(ZeroRelease, "xplane: error fetching latest release")
    ELSE Returns([TagName |-> r.releases[1]], nil)

(* part_005:88-104 (GitHub) and :195-220 (GitLab)  GetLatestRelease on the *)
(* client's answer r.                                                      *)
GetLatestRelease(v, r) ==
    IF v = "github"
    THEN IF r.err # nil
         THEN IF r.err = "ErrorResponse" /\ r.StatusCode >= 400
              THEN Returns(NoReleasesFound, nil)
              ELSE Returns(ZeroRelease,
                           "xplane: error fetching latest release from Github")
         ELSE Returns([TagName |-> r.releases[1]], nil)
    ELSE IF r.err # nil
         THEN Returns(ZeroRelease, "xplane: error fetching releases from Gitlab")
         ELSE IF Len(r.releases) = 0
         THEN Returns(NoReleasesFound, nil)
         ELSE Returns([TagName |-> r.releases[1]], nil)

(* A slip in the branch check: every answered failure taken for a missing  *)
(* branch.                                                                 *)
BranchExistsOnRemoteOriginLenient(v, r) ==
    IF r.err # nil
    THEN IF r.hasResp THEN Returns(FALSE, nil) ELSE Returns(FALSE, r.err)
    ELSE Returns(TRUE, nil)

(* part_005:58-68 (GitHub) and :154-165 (GitLab), the same body.           *)
BranchExistsOnRemoteOrigin(v, r) ==
    IF r.err # nil
    THEN IF r.hasResp /\ r.StatusCode = 404
         THEN Returns(FALSE, nil)
         ELSE Returns(FALSE, r.err)
    ELSE Returns(TRUE, nil)

(* part_005:69-86 (GitHub) and :167-193 (GitLab)  GetOpenPullRequests: the *)
(* listing, or the error of the request.                                   *)
GetOpenPullRequests(v, r) ==
    IF r.err # nil
    THEN Returns("nil", IF v = "github"
                        THEN "xplane: error fetching PRs from Github upstream"
                        ELSE "xplane: error fetching MRs from Gitlab")
    ELSE Returns("pull requests", nil)

(* part_005:106-134 (GitHub) and :249-315 (GitLab)  CompareBranchWithDefault *)
(* on the answer r to the request of its that fails, or to its last one:   *)
(* every request's error is returned with the zero comparison.             *)
CompareBranchWithDefaultOn(v, r) ==
    IF r.err # nil
    THEN Returns("BranchComparison{}", "xplane: could not compare branches")
    ELSE Returns("comparison", nil)

(* A slip in the gatherer: a provider built by every call.                 *)
initProviderAnew(p, remoteURL, config) ==
    LET r == getGitProvider(remoteURL, config) IN
        [provider |-> r.provider, err |-> r.err, attempts |-> 1]

(* part_007:18-27  initProvider: builds the provider when there is none.   *)
initProvider(p, remoteURL, config) ==
    IF p = "nil"
    THEN LET r == getGitProvider(remoteURL, config) IN
             [provider |-> r.provider, err |-> r.err, attempts |-> 1]
    ELSE [provider |-> p, err |-> nil, attempts |-> 0]

(* A slip in the branch status: the comparison asked for whatever the      *)
(* lookup said.                                                            *)
AfterBranchLookupAlwaysCompare(existsOnFork) == "compare"

(* part_007:116-123  what getGitBranchStatus does with the lookup's        *)
(* result: returns its error, reports the deleted branch, or goes on to    *)
(* the comparison.                                                         *)
AfterBranchLookup(existsOnFork) ==
    IF existsOnFork.err # nil THEN "return error"
    ELSE IF ~existsOnFork.value THEN "report deleted"
    ELSE "compare"

NotPushedText == "Local branch has not been pushed to the remote."
DeletedText == "Local branch has been deleted from the remote fork."

(* The command lists of a pass.                                            *)
PassCommandLists ==
    CommandLists \cup {<<<<"git_branch_status">>, <<" ", "release">>>>}

InitPass ==
    /\ primaryRemote \in RemoteURLs
    /\ tokens \in TokenConfigs
    /\ gitProvider = "nil"
    /\ initErr = "unset"
    /\ passCommands \in PassCommandLists
    /\ pending = passCommands
    /\ sections = <<>>
    /\ initCalls = 0
    /\ apiCalls = <<>>
    /\ lastCall = NoCall
    /\ passPc = "start"
    /\ CompareIdle
    /\ ParseIdle
    /\ RunIdle
    /\ LedgerIdle
    /\ ExtractIdle
    /\ PagesIdle

trimmedCmd == TrimSpace(Head(pending))

(* The provider as the loop's skip test sees it.                           *)
PassWorld == [provider |-> IF initErr # nil THEN "unavailable" ELSE gitProvider]

ApiCall(v, api) == [host |-> v, api |-> api]

ProviderCall(method, v, situation, r, out) ==
    [method |-> method, variant |-> v, situation |-> situation, resp |-> r,
     out |-> out]

(* context.go:75-81  the handler has returned: its error ends the pass,    *)
(* its output becomes a section and the loop goes on.                      *)
Continue(output, err) ==
    IF err # nil
    THEN passPc' = "failed" /\ pending' = pending /\ sections' = sections
    ELSE /\ passPc' = "loop"
         /\ pending' = Tail(pending)
         /\ sections' = Append(sections, [cmd |-> trimmedCmd, output |-> output])

(* The handler's own call of initProvider (part_007:30, :65, :97).         *)
HandlerInit == initProvider(gitProvider, primaryRemote, tokens)

(* context.go:29-30  gatherer.initProvider() as the pass begins.           *)
InitProvider ==
    /\ passPc = "start"
    /\ LET ip == initProvider(gitProvider, primaryRemote, tokens) IN
         /\ gitProvider' = ip.provider
         /\ initErr' = ip.err
         /\ initCalls' = initCalls + ip.attempts
    /\ passPc' = "loop"
    /\ UNCHANGED <<primaryRemote, tokens, passCommands, pending, sections, apiCalls,
                   lastCall>>
    /\ UNCHANGED besidePass

(* context.go:54-65  a provider-backed command passed over.                *)
SkipCommand ==
    /\ passPc = "loop" /\ pending # <<>>
    /\ IsSkipped(trimmedCmd, PassWorld)
    /\ pending' = Tail(pending)
    /\ UNCHANGED <<primaryRemote, tokens, gitProvider, initErr, passCommands, sections,
                   initCalls, apiCalls, lastCall, passPc>>
    /\ UNCHANGED besidePass

(* context.go:69-81  a command that runs in the working directory.         *)
RunLocalCommand ==
    /\ passPc = "loop" /\ pending # <<>>
    /\ ~IsGitProviderBasedCommand(trimmedCmd)
    /\ \E fails \in BOOLEAN :
         Continue("stdout", IF fails THEN "exit status 1" ELSE nil)
    /\ UNCHANGED <<primaryRemote, tokens, gitProvider, initErr, passCommands,
                   initCalls, apiCalls, lastCall>>
    /\ UNCHANGED besidePass

(* part_007:29-62  getOpenPRS: initProvider, then one listing request.     *)
GetOpenPRS ==
    /\ passPc = "loop" /\ pending # <<>>
    /\ trimmedCmd \in {<<"github_prs">>, <<"gitlab_mrs">>}
    /\ ~IsSkipped(trimmedCmd, PassWorld)
    /\ LET ip == HandlerInit IN
         /\ gitProvider' = ip.provider
         /\ initCalls' = initCalls + ip.attempts
         /\ IF ip.err # nil
            THEN Continue("", ip.err) /\ UNCHANGED <<apiCalls, lastCall>>
            ELSE /\ apiCalls' = Append(apiCalls, ApiCall(ip.provider, "pull requests"))
                 /\ \E situation \in Situations \ {"absent"} :
                      LET r == HostResponse(ip.provider, "pull requests", situation)
                          out == GetOpenPullRequests(ip.provider, r)
                      IN  /\ lastCall' = ProviderCall("GetOpenPullRequests",
                                                      ip.provider, situation, r, out)
                          /\ Continue(out.value, out.err)
    /\ UNCHANGED <<primaryRemote, tokens, initErr, passCommands>>
    /\ UNCHANGED besidePass

(* part_007:64-85  getLatestRelease: initProvider, whose error ends the    *)
(* handler with an empty output, then the release asked of the host.       *)
GetLatestReleaseOfHost ==
    /\ passPc = "loop" /\ pending # <<>>
    /\ trimmedCmd = <<"release">>
    /\ ~IsSkipped(trimmedCmd, PassWorld)
    /\ LET ip == HandlerInit IN
         /\ gitProvider' = ip.provider
         /\ initCalls' = initCalls + ip.attempts
         /\ IF ip.err # nil
            THEN Continue("", nil) /\ UNCHANGED <<apiCalls, lastCall>>
            ELSE /\ apiCalls' = Append(apiCalls, ApiCall(ip.provider, "releases"))
                 /\ \E situation \in Situations :
                      LET r == HostResponse(ip.provider, "releases", situation)
                          out == GetLatestRelease(ip.provider, r)
                      IN  /\ lastCall' = ProviderCall("GetLatestRelease", ip.provider,
                                                      situation, r, out)
                          /\ Continue(out.value.TagName, out.err)
    /\ UNCHANGED <<primaryRemote, tokens, initErr, passCommands>>
    /\ UNCHANGED besidePass

(* part_007:87-95  getGitBranchStatus on a branch that tracks no remote    *)
(* branch: the text, and nothing asked of anyone.                          *)
BranchNotPushed ==
    /\ passPc = "loop" /\ pending # <<>>
    /\ trimmedCmd = <<"git_branch_status">>
    /\ ~IsSkipped(trimmedCmd, PassWorld)
    /\ Continue(NotPushedText, nil)
    /\ UNCHANGED <<primaryRemote, tokens, gitProvider, initErr, passCommands,
                   initCalls, apiCalls, lastCall>>
    /\ UNCHANGED besidePass

(* part_007:97-123  getGitBranchStatus on a tracked branch, up to the      *)
(* branch's lookup on the fork and what follows from its answer.           *)
GetGitBranchStatus ==
    /\ passPc = "loop" /\ pending # <<>>
    /\ trimmedCmd = <<"git_branch_status">>
    /\ ~IsSkipped(trimmedCmd, PassWorld)
    /\ LET ip == HandlerInit IN
         /\ gitProvider' = ip.provider
         /\ initCalls' = initCalls + ip.attempts
         /\ IF ip.err # nil
            THEN Continue("", nil) /\ UNCHANGED <<apiCalls, lastCall>>
            ELSE /\ apiCalls' = Append(apiCalls, ApiCall(ip.provider, "branch"))
                 /\ \E situation \in Situations :
                      LET r == HostResponse(ip.provider, "branch", situation)
                          existsOnFork == BranchExistsOnRemoteOrigin(ip.provider, r)
                      IN  /\ lastCall' = ProviderCall("BranchExistsOnRemoteOrigin",
                                                      ip.provider, situation, r,
                                                      existsOnFork)
                          /\ CASE AfterBranchLookup(existsOnFork) = "return error"
                                    -> Continue("", existsOnFork.err)
                               [] AfterBranchLookup(existsOnFork) = "report deleted"
                                    -> Continue(DeletedText, nil)
                               [] OTHER -> /\ passPc' = "compare"
                                           /\ UNCHANGED <<pending, sections>>
    /\ UNCHANGED <<primaryRemote, tokens, initErr, passCommands>>
    /\ UNCHANGED besidePass

(* part_007:125-141  getGitBranchStatus, from the comparison on.           *)
CompareWithDefault ==
    /\ passPc = "compare"
    /\ apiCalls' = Append(apiCalls, ApiCall(gitProvider, "compare"))
    /\ \E situation \in Situations \ {"absent"} :
         LET r == HostResponse(gitProvider, "compare", situation)
             out == CompareBranchWithDefaultOn(gitProvider, r)
         IN  /\ lastCall' = ProviderCall("CompareBranchWithDefault", gitProvider,
                                         situation, r, out)
             /\ Continue(out.value, out.err)
    /\ UNCHANGED <<primaryRemote, tokens, gitProvider, initErr, passCommands,
                   initCalls>>
    /\ UNCHANGED besidePass

(* context.go:82  the loop is over.                                        *)
EndPass ==
    /\ passPc = "loop" /\ pending = <<>>
    /\ passPc' = "done"
    /\ UNCHANGED <<primaryRemote, tokens, gitProvider, initErr, passCommands, pending,
                   sections, initCalls, apiCalls, lastCall>>
    /\ UNCHANGED besidePass

NextPass ==
    \/ InitProvider
    \/ SkipCommand
    \/ RunLocalCommand
    \/ GetOpenPRS
    \/ GetLatestReleaseOfHost
    \/ BranchNotPushed
    \/ GetGitBranchStatus
    \/ CompareWithDefault
    \/ EndPass

SpecPass == InitPass /\ [][NextPass]_vars

-----------------------------------------------------------------------------
(* Properties of the provider methods and of the pass.                     *)

Called(method) == lastCall.method = method

NotFoundResponse == lastCall.resp.hasResp /\ lastCall.resp.StatusCode = 404

ReturnedSentinel == lastCall.out = Returns(NoReleasesFound, nil)

(* C16 (as stated): for both provider variants, GetLatestRelease on a      *)
(* not-found response from the host returns, without error, the sentinel   *)
(* Release whose TagName is 'No releases found'.                           *)
C16_NotFoundGivesSentinel ==
    (Called("GetLatestRelease") /\ NotFoundResponse) => ReturnedSentinel

(* C16 (amended): GetLatestRelease returns the sentinel without error when *)
(* the project has no release, which the GitHub variant learns from a 404  *)
(* and the GitLab variant from an empty release list; the GitHub variant   *)
(* does so on every 404.                                                   *)
C16_NoReleaseGivesSentinel ==
    Called("GetLatestRelease") =>
        /\ lastCall.situation = "absent" => ReturnedSentinel
        /\ (lastCall.variant = "github" /\ NotFoundResponse) => ReturnedSentinel
        /\ (lastCall.variant = "gitlab" /\ lastCall.resp.err = nil
              /\ lastCall.resp.releases = <<>>) => ReturnedSentinel

C16_Witness ==
    /\ Called("GetLatestRelease")
    /\ lastCall.variant = "gitlab"
    /\ lastCall.situation = "absent"
    /\ ReturnedSentinel

(* C17: for both provider variants, BranchExistsOnRemoteOrigin returns     *)
(* (true, no error) when the host returns the branch, (false, no error)    *)
(* when the host answers 404, (false, error) on every other failure, and   *)
(* never true together with an error.                                      *)
C17_BranchExistsContract ==
    Called("BranchExistsOnRemoteOrigin") =>
        /\ lastCall.situation = "found" => lastCall.out = Returns(TRUE, nil)
        /\ NotFoundResponse => lastCall.out = Returns(FALSE, nil)
        /\ (lastCall.situation # "found" /\ ~NotFoundResponse) =>
              (lastCall.out.value = FALSE /\ lastCall.out.err # nil)
        /\ ~(lastCall.out.value = TRUE /\ lastCall.out.err # nil)

C17_Witness ==
    /\ Called("BranchExistsOnRemoteOrigin")
    /\ lastCall.variant = "gitlab"
    /\ lastCall.situation = "server error"
    /\ lastCall.out.value = FALSE /\ lastCall.out.err # nil
    /\ passPc = "failed"

(* The hosting kind of the primary remote is that of its host.             *)
HostingKind == IF primaryRemote = <<>> THEN "none" ELSE primaryRemote[2]

RequiredTokenAbsent ==
    \/ HostingKind = "github" /\ tokens.GithubToken = EmptyString
    \/ HostingKind = "gitlab" /\ tokens.GitlabToken = EmptyString

(* C18: when the token required by the hosting kind of the primary remote  *)
(* is absent, getGitProvider returns an error and no provider, and no      *)
(* network call to the hosting API is made before or after it in the pass. *)
C18_MissingTokenMeansNoProviderNoCall ==
    RequiredTokenAbsent =>
        /\ apiCalls = <<>>
        /\ passPc \notin {"start", "idle"} => (initErr # nil /\ gitProvider = "nil")

ProviderMethods ==
    {"GetLatestRelease", "BranchExistsOnRemoteOrigin", "GetOpenPullRequests",
     "CompareBranchWithDefault"}

(* A failure of the host that is not a not-found answer.                   *)
OtherFailure ==
    lastCall.situation \in {"unauthorized", "rate limited", "server error", "unreachable"}

(* C22: a provider failure that is not a not-found response (5xx, 401/403, *)
(* transport failure) is returned as an error by GetLatestRelease,         *)
(* BranchExistsOnRemoteOrigin, GetOpenPullRequests and                     *)
(* CompareBranchWithDefault in both variants, never turned into a sentinel *)
(* or default value.                                                       *)
C22_OtherFailuresAreErrors ==
    (lastCall.method \in ProviderMethods /\ OtherFailure) => lastCall.out.err # nil

(* The commands of the pass the loop is done with, and the sections'       *)
(* commands.                                                               *)
Consumed == Len(passCommands) - Len(pending)
SectionCommands == [i \in 1..Len(sections) |-> sections[i].cmd]

RECURSIVE LocalCommandsOf(_, _)
LocalCommandsOf(cmds, n) ==
    IF n = 0 THEN <<>>
    ELSE LET c == TrimSpace(cmds[n]) IN
         IF IsGitProviderBasedCommand(c) THEN LocalCommandsOf(cmds, n - 1)
         ELSE Append(LocalCommandsOf(cmds, n - 1), c)

InitFailed == initErr \notin {nil, "unset"}

ProviderNeeded ==
    \E i \in 1..Len(passCommands) :
        /\ i <= Consumed + 1
        /\ IsGitProviderBasedCommand(TrimSpace(passCommands[i]))

SameInstance == \A i \in 1..Len(apiCalls) : apiCalls[i].host = gitProvider

(* C24 (as stated): the provider is constructed lazily and at most once in *)
(* a pass: only when a provider-backed producer first needs it, never when *)
(* none is configured, no more than once whether it succeeds or fails, and *)
(* every provider-backed producer uses that same instance.                 *)
C24_ProviderBuiltLazilyOnce ==
    /\ initCalls <= 1
    /\ initCalls > 0 => ProviderNeeded
    /\ SameInstance

(* C24 (amended): the provider's construction is attempted once, as the    *)
(* pass begins and whatever the commands, never again in the pass whether  *)
(* it succeeded or failed, and every provider-backed producer uses that    *)
(* instance.                                                               *)
C24_ProviderBuiltOnceAtStart ==
    /\ initCalls <= 1
    /\ passPc \notin {"start", "idle"} => initCalls = 1
    /\ SameInstance

C24_Witness ==
    /\ passPc = "done"
    /\ initCalls = 1
    /\ initErr = nil
    /\ Len(apiCalls) >= 3

LastApi == IF apiCalls = <<>> THEN "none" ELSE apiCalls[Len(apiCalls)].api
LastSection == IF sections = <<>> THEN "none" ELSE sections[Len(sections)].output

(* C29: git_branch_status on a branch without a remote tracking branch     *)
(* returns the 'not been pushed' text and calls no provider; otherwise the *)
(* existence check comes before the comparison, and the comparison is      *)
(* called only if the check returned true without error; a false result    *)
(* gives the 'deleted from the remote fork' text and no comparison.        *)
C29_BranchStatusOrder ==
    [][/\ (sections' # sections /\ LastSection' = NotPushedText) =>
              (apiCalls' = apiCalls /\ lastCall' = lastCall)
       /\ (apiCalls' # apiCalls /\ LastApi' = "compare") =>
              /\ LastApi = "branch"
              /\ lastCall.method = "BranchExistsOnRemoteOrigin"
              /\ lastCall.out = Returns(TRUE, nil)
       /\ (apiCalls' # apiCalls /\ LastApi' = "branch") =>
              /\ Len(apiCalls') = Len(apiCalls) + 1
              /\ lastCall'.method = "BranchExistsOnRemoteOrigin"
              /\ lastCall'.out = Returns(TRUE, nil) <=> passPc' = "compare"
       /\ (sections' # sections /\ LastSection' = DeletedText) =>
              /\ LastApi' = "branch"
              /\ lastCall'.method = "BranchExistsOnRemoteOrigin"
              /\ lastCall'.out = Returns(FALSE, nil)]_vars

C29_Witness ==
    /\ lastCall.method = "CompareBranchWithDefault"
    /\ Len(apiCalls) >= 2
    /\ apiCalls[Len(apiCalls) - 1].api = "branch"
    /\ LastApi = "compare"
    /\ LastSection = "comparison"

====
